---- MODULE Spec2Model ----
(***************************************************************************)
(* Relation reconciliation of the CAAS operator                            *)
(* (worker/caasoperator/relation/relations.go).                            *)
(*                                                                         *)
(* Unit names are Go strings; they are modelled as finite sequences of     *)
(* letters 1..AlphabetSize, compared lexicographically as Go compares      *)
(* strings, with <<>> the empty string.  Change versions are int64 values  *)
(* drawn from 0..MaxVersion.                                               *)
(***************************************************************************)
EXTENDS Integers, Sequences, FiniteSets, TLC

\* ---------------------------------------------------------------- bounds
MaxUnits == 2
MaxVersion == 1
AlphabetSize == 1
MaxCalls == 6

\* ------------------------------------------------------------ unit names
\* The i-th unit name in length-then-letter enumeration: with two letters
\* "a", "b", "aa", "ab", ... (so the enumeration is not the sorted order),
\* with one letter "a", "aa", "aaa", ...
RECURSIVE NameOf(_)
NameOf(i) ==
    IF i <= AlphabetSize
    THEN <<i>>
    ELSE Append(NameOf((i - 1) \div AlphabetSize), ((i - 1) % AlphabetSize) + 1)

UnitNames == {NameOf(i) : i \in 1..MaxUnits}
EmptyName == <<>>
Versions == 0..MaxVersion

\* Go's string comparison a < b.
RECURSIVE StringLess(_, _)
StringLess(a, b) ==
    IF a = <<>> THEN b # <<>>
    ELSE IF b = <<>> THEN FALSE
    ELSE IF Head(a) # Head(b) THEN Head(a) < Head(b)
    ELSE StringLess(Tail(a), Tail(b))

\* Every member map with keys among the unit names.
MemberMaps == UNION {[D -> Versions] : D \in SUBSET UnitNames}

\* Go map read m[k]: the zero value when the key is absent.
MembersGet(m, u) == IF u \in DOMAIN m THEN m[u] ELSE 0

\* Every order in which a Go map or set may be iterated.
Orders(S) ==
    {f \in [1..Cardinality(S) -> S] : \A i, j \in 1..Cardinality(S) : f[i] = f[j] => i = j}

\* ------------------------------------------------------------ hook.Info
NoHook == [Kind |-> "", RelationId |-> 0, RemoteUnit |-> EmptyName, ChangeVersion |-> 0]

HookInfo(kind, relationId, unitName, changeVersion) ==
    [Kind |-> kind, RelationId |-> relationId, RemoteUnit |-> unitName,
     ChangeVersion |-> changeVersion]

Return(hook, err) == [hook |-> hook, err |-> err]

\* ------------------------------------------------- set.Strings.SortedValues
\* sort.Strings on the values of the set, handed over in iteration order.
RECURSIVE InsertSorted(_, _)
InsertSorted(sorted, u) ==
    IF sorted = <<>> THEN <<u>>
    ELSE IF StringLess(u, Head(sorted)) THEN <<u>> \o sorted
    ELSE <<Head(sorted)>> \o InsertSorted(Tail(sorted), u)

\* Mutant: the values are handed back in iteration order, unsorted.
UnsortedValues(values) == values

\* Mutant: the values are sorted in descending order.
RECURSIVE SortedValuesDescending(_)
SortedValuesDescending(values) ==
    IF values = <<>> THEN <<>>
    ELSE LET rest == SortedValuesDescending(Tail(values))
             smaller == SelectSeq(rest, LAMBDA u : StringLess(u, Head(values)))
             larger == SelectSeq(rest, LAMBDA u : StringLess(Head(values), u))
         IN  larger \o <<Head(values)>> \o smaller

RECURSIVE SortedValues(_)
SortedValues(values) ==
    IF values = <<>> THEN <<>>
    ELSE InsertSorted(SortedValues(Tail(values)), Head(values))

\* Mutant: the remote member names are left out of the union.
allUnitNamesLocalOnly(local, remote) == DOMAIN local.Members

\* allUnitNames: the union of the local and remote member names.
allUnitNames(local, remote) == DOMAIN local.Members \cup DOMAIN remote.Members

\* ------------------------------------------------------- nextRelationHook
\* Mutant: the pending change is replayed with the stale local version.
pendingHookLocalVersion(local, remote) ==
    HookInfo("RelationChanged", local.RelationId, local.ChangedPending,
             MembersGet(local.Members, local.ChangedPending))

\* The guaranteed next hook when a change is pending.
pendingHook(local, remote) ==
    HookInfo("RelationChanged", local.RelationId, local.ChangedPending,
             MembersGet(remote.Members, local.ChangedPending))

\* The loops return at the first name passing their test: the index, from
\* i on, of the first TRUE of a sequence of test outcomes, or 0.
RECURSIVE FirstFrom(_, _)
FirstFrom(tests, i) ==
    IF i > Len(tests) THEN 0
    ELSE IF tests[i] THEN i
    ELSE FirstFrom(tests, i + 1)

isDeparted(unitName, local, remote) ==
    unitName \in DOMAIN local.Members /\ unitName \notin DOMAIN remote.Members

isJoined(unitName, local, remote) ==
    unitName \in DOMAIN remote.Members /\ unitName \notin DOMAIN local.Members

\* Mutant: only a newer remote version counts as a change.
isChangedNewer(unitName, local, remote) ==
    /\ unitName \in DOMAIN remote.Members
    /\ unitName \in DOMAIN local.Members
    /\ remote.Members[unitName] > local.Members[unitName]

isChanged(unitName, local, remote) ==
    /\ unitName \in DOMAIN remote.Members
    /\ unitName \in DOMAIN local.Members
    /\ remote.Members[unitName] # local.Members[unitName]

\* Mutant: the departure carries the (absent) remote version.
departedHookRemoteVersion(local, remote, sortedUnitNames) ==
    LET i == FirstFrom([k \in 1..Len(sortedUnitNames) |->
                           isDeparted(sortedUnitNames[k], local, remote)], 1)
    IN  IF i = 0 THEN NoHook
        ELSE HookInfo("RelationDeparted", local.RelationId, sortedUnitNames[i],
                      MembersGet(remote.Members, sortedUnitNames[i]))

\* First loop: locally known units no longer reflected in remote state.
departedHook(local, remote, sortedUnitNames) ==
    LET i == FirstFrom([k \in 1..Len(sortedUnitNames) |->
                           isDeparted(sortedUnitNames[k], local, remote)], 1)
    IN  IF i = 0 THEN NoHook
        ELSE HookInfo("RelationDeparted", local.RelationId, sortedUnitNames[i],
                      local.Members[sortedUnitNames[i]])

\* The relation is meant to be broken.
brokenHook(local) ==
    [NoHook EXCEPT !.Kind = "RelationBroken", !.RelationId = local.RelationId]

\* Second loop: remote units not locally known.
joinedHook(local, remote, sortedUnitNames) ==
    LET i == FirstFrom([k \in 1..Len(sortedUnitNames) |->
                           isJoined(sortedUnitNames[k], local, remote)], 1)
    IN  IF i = 0 THEN NoHook
        ELSE HookInfo("RelationJoined", local.RelationId, sortedUnitNames[i],
                      remote.Members[sortedUnitNames[i]])

\* Mutant: the change carries the version already known locally.
changedHookStaleVersion(local, remote, sortedUnitNames) ==
    LET i == FirstFrom([k \in 1..Len(sortedUnitNames) |->
                           isChanged(sortedUnitNames[k], local, remote)], 1)
    IN  IF i = 0 THEN NoHook
        ELSE HookInfo("RelationChanged", local.RelationId, sortedUnitNames[i],
                      local.Members[sortedUnitNames[i]])

\* Third loop: remote units whose latest version is not reflected locally.
changedHook(local, remote, sortedUnitNames) ==
    LET i == FirstFrom([k \in 1..Len(sortedUnitNames) |->
                           isChanged(sortedUnitNames[k], local, remote)], 1)
    IN  IF i = 0 THEN NoHook
        ELSE HookInfo("RelationChanged", local.RelationId, sortedUnitNames[i],
                      remote.Members[sortedUnitNames[i]])

\* Mutant: joins are looked for before the teardown.
nextRelationHookJoinFirst(local, remote, remoteBroken, values) ==
    IF local.ChangedPending # EmptyName
    THEN Return(pendingHook(local, remote), "nil")
    ELSE LET sortedUnitNames == SortedValues(values)
             departed == departedHook(local, remote, sortedUnitNames)
             joined == joinedHook(local, remote, sortedUnitNames)
             changed == changedHook(local, remote, sortedUnitNames)
         IN  IF departed # NoHook THEN Return(departed, "nil")
             ELSE IF joined # NoHook THEN Return(joined, "nil")
             ELSE IF remoteBroken THEN Return(brokenHook(local), "nil")
             ELSE IF changed # NoHook THEN Return(changed, "nil")
             ELSE Return(NoHook, "ErrNoOperation")

\* Mutant: changes are looked for before joins.
nextRelationHookChangeFirst(local, remote, remoteBroken, values) ==
    IF local.ChangedPending # EmptyName
    THEN Return(pendingHook(local, remote), "nil")
    ELSE LET sortedUnitNames == SortedValues(values)
             departed == departedHook(local, remote, sortedUnitNames)
             joined == joinedHook(local, remote, sortedUnitNames)
             changed == changedHook(local, remote, sortedUnitNames)
         IN  IF departed # NoHook THEN Return(departed, "nil")
             ELSE IF remoteBroken THEN Return(brokenHook(local), "nil")
             ELSE IF changed # NoHook THEN Return(changed, "nil")
             ELSE IF joined # NoHook THEN Return(joined, "nil")
             ELSE Return(NoHook, "ErrNoOperation")

\* nextRelationHook; values is the order in which allUnitNames is iterated.
\* Mutant: the pending change is replayed only for a unit the snapshot
\* lists.
nextRelationHookPendingIfRemote(local, remote, remoteBroken, values) ==
    IF local.ChangedPending # EmptyName /\ local.ChangedPending \in DOMAIN remote.Members
    THEN Return(pendingHook(local, remote), "nil")
    ELSE LET sortedUnitNames == SortedValues(values)
             departed == departedHook(local, remote, sortedUnitNames)
             joined == joinedHook(local, remote, sortedUnitNames)
             changed == changedHook(local, remote, sortedUnitNames)
         IN  IF departed # NoHook THEN Return(departed, "nil")
             ELSE IF remoteBroken THEN Return(brokenHook(local), "nil")
             ELSE IF joined # NoHook THEN Return(joined, "nil")
             ELSE IF changed # NoHook THEN Return(changed, "nil")
             ELSE Return(NoHook, "ErrNoOperation")

\* Mutant: departures are looked for before the pending change is replayed.
nextRelationHookDepartedFirst(local, remote, remoteBroken, values) ==
    LET sortedUnitNames == SortedValues(values)
        departed == departedHook(local, remote, sortedUnitNames)
        joined == joinedHook(local, remote, sortedUnitNames)
        changed == changedHook(local, remote, sortedUnitNames)
    IN  IF departed # NoHook THEN Return(departed, "nil")
        ELSE IF local.ChangedPending # EmptyName
        THEN Return(pendingHook(local, remote), "nil")
        ELSE IF remoteBroken THEN Return(brokenHook(local), "nil")
        ELSE IF joined # NoHook THEN Return(joined, "nil")
        ELSE IF changed # NoHook THEN Return(changed, "nil")
        ELSE Return(NoHook, "ErrNoOperation")

nextRelationHook(local, remote, remoteBroken, values) ==
    IF local.ChangedPending # EmptyName
    THEN Return(pendingHook(local, remote), "nil")
    ELSE LET sortedUnitNames == SortedValues(values)
             departed == departedHook(local, remote, sortedUnitNames)
             joined == joinedHook(local, remote, sortedUnitNames)
             changed == changedHook(local, remote, sortedUnitNames)
         IN  IF departed # NoHook THEN Return(departed, "nil")
             ELSE IF remoteBroken THEN Return(brokenHook(local), "nil")
             ELSE IF joined # NoHook THEN Return(joined, "nil")
             ELSE IF changed # NoHook THEN Return(changed, "nil")
             ELSE Return(NoHook, "ErrNoOperation")

\* ------------------------------------------------ Relationer.CommitHook
\* The effect of a committed hook on the local relation state.
commitState(local, hook) ==
    IF hook.Kind = "RelationJoined"
    THEN [local EXCEPT !.Members =
            [u \in DOMAIN local.Members \cup {hook.RemoteUnit} |->
                IF u = hook.RemoteUnit THEN hook.ChangeVersion ELSE local.Members[u]]]
    ELSE IF hook.Kind = "RelationChanged"
    THEN [local EXCEPT
            !.Members =
                [u \in DOMAIN local.Members \cup {hook.RemoteUnit} |->
                    IF u = hook.RemoteUnit THEN hook.ChangeVersion ELSE local.Members[u]],
            !.ChangedPending =
                IF local.ChangedPending = hook.RemoteUnit THEN EmptyName
                ELSE local.ChangedPending]
    ELSE IF hook.Kind = "RelationDeparted"
    THEN [local EXCEPT !.Members =
            [u \in DOMAIN local.Members \ {hook.RemoteUnit} |-> local.Members[u]]]
    ELSE [local EXCEPT !.Members = <<>>]

\* ===================================================================== *
\* One relation: nextRelationHook called again after every commit.       *
\* ===================================================================== *
VARIABLES
    local,          \* the relation's local State
    remote,         \* the remote RelationSnapshot, held fixed
    remoteBroken,   \* the remoteBroken argument, held fixed
    result,         \* what the last nextRelationHook call returned
    pc,             \* "next": a call is due; "commit": a hook awaits commit; "done"
    calls,          \* number of nextRelationHook calls made
    emitted,        \* the hooks returned so far, oldest first
    initial         \* the local State the run started from

relVars == <<local, remote, remoteBroken, result, pc, calls, emitted, initial>>

VARIABLES
    relationers,    \* r.relationers: relation id -> Relationer
    dirs,           \* the relation ids that have a state directory
    remoteState,    \* the remotestate.Snapshot handed to NextHook
    abort,          \* TRUE once the abort channel is closed
    spc,            \* "idle", "update", "add", "added" (add has returned to
                    \* update), "returned" (NextHook has returned) or "called"
                    \* (Name, PrepareHook or CommitHook has returned); in
                    \* NewRelations "new" (not called yet), "known dirs" and
                    \* "joined relations" (the two loops of init), "add",
                    \* "added" and "started" (NewRelations has returned)
    call,           \* the call in progress: its name and hook.Info argument, and
                    \* for NextHook localState.Kind (once read), the relation
                    \* ids update has still to range over, and the id update
                    \* looked at last with what it did for it; for NewRelations
                    \* the joined relations, the state directories found and
                    \* the ids init has still to range over
    adding,         \* the add in progress: where it stands, what the unit
                    \* watcher has ready, and what it has done so far
    ret             \* what the call returned

setVars == <<relationers, dirs, remoteState, abort, spc, call, adding, ret>>
vars == <<relVars, setVars>>

NoCall ==
    [op |-> "", arg |-> NoHook, Kind |-> "", todo |-> <<>>, id |-> 0, did |-> "",
     joined |-> {}, known |-> {}]
\* at: "watch" (before the unit watcher is started), "select" (about to
\* evaluate the select), "parked" (blocked in the select, nothing ready),
\* "join" (in relationer.Join) or "returned".  event: what the watcher's
\* channel has ready ("none", "change" or "closed").  took: the case the last
\* select took.  outcome: what the last relationer.Join answered.  state:
\* the State of the state directory add was handed.
NoAdd ==
    [id |-> 0, implicit |-> FALSE, watcher |-> "none", at |-> "", event |-> "none",
     took |-> "", outcome |-> "", attempts |-> 0, rejections |-> 0, stops |-> 0,
     err |-> "none",
     state |-> [RelationId |-> 0, Members |-> <<>>, ChangedPending |-> EmptyName]]

\* No relation set: the state of setVars while one relation is looked at alone.
SetQuiet ==
    /\ relationers = <<>>
    /\ dirs = {}
    /\ remoteState = [Life |-> "alive", Relations |-> <<>>]
    /\ abort = FALSE
    /\ spc = "idle"
    /\ call = NoCall
    /\ adding = NoAdd
    /\ ret = Return(NoHook, "none")

LocalStates ==
    [RelationId : {1}, Members : MemberMaps, ChangedPending : UnitNames \cup {EmptyName}]

RelationSnapshots == [Life : {"alive"}, Members : MemberMaps]

Init ==
    /\ local \in LocalStates
    /\ remote \in RelationSnapshots
    /\ remoteBroken \in BOOLEAN
    /\ result = Return(NoHook, "none")
    /\ pc = "next"
    /\ calls = 0
    /\ emitted = <<>>
    /\ initial = local
    /\ SetQuiet

\* A call of nextRelationHook on the current local state.
NextRelationHookCall ==
    /\ pc = "next"
    /\ calls < MaxCalls
    /\ \E values \in Orders(allUnitNames(local, remote)) :
          result' = nextRelationHook(local, remote, remoteBroken, values)
    /\ calls' = calls + 1
    /\ pc' = IF result'.err = "nil" THEN "commit" ELSE "done"
    /\ emitted' = IF result'.err = "nil" THEN Append(emitted, result'.hook) ELSE emitted
    /\ UNCHANGED <<local, remote, remoteBroken, initial, setVars>>

\* The returned hook is committed; a committed RelationBroken ends the relation.
CommitHookStep ==
    /\ pc = "commit"
    /\ local' = commitState(local, result.hook)
    /\ pc' = IF result.hook.Kind = "RelationBroken" THEN "done" ELSE "next"
    /\ UNCHANGED <<remote, remoteBroken, result, calls, emitted, initial, setVars>>

\* The durable states: ChangedPending is empty or names a local member.
InitValid ==
    /\ Init
    /\ local.ChangedPending \in DOMAIN local.Members \cup {EmptyName}

Next == NextRelationHookCall \/ CommitHookStep

Spec == Init /\ [][Next]_vars

SpecValid == InitValid /\ [][Next]_vars

\* ===================================================================== *
\* Properties of nextRelationHook                                        *
\* ===================================================================== *
\* The last call's result is still paired with the local state it was given.
Returned == pc = "commit" \/ (pc = "done" /\ result.err = "ErrNoOperation")

\* The smallest name of a non-empty set, in Go's string order.
Smallest(S) == CHOOSE u \in S : \A v \in S : u = v \/ StringLess(u, v)

DepartedUnits(l) == DOMAIN l.Members \ DOMAIN remote.Members
JoinedUnits(l) == DOMAIN remote.Members \ DOMAIN l.Members
ChangedUnits(l) ==
    {u \in DOMAIN l.Members \cap DOMAIN remote.Members : l.Members[u] # remote.Members[u]}

\* C1: whenever ChangedPending names a unit u, the call returns
\* RelationChanged for u with ChangeVersion = remote.Members[u] (the zero
\* value if u is no remote member), whatever else is outstanding.
C1_PendingReplayFirst ==
    (Returned /\ local.ChangedPending # EmptyName) =>
        result = Return(HookInfo("RelationChanged", local.RelationId, local.ChangedPending,
                                 MembersGet(remote.Members, local.ChangedPending)), "nil")

\* A pending change is replayed although a departure, a join and a teardown
\* are outstanding at the same time.
C1_Witness ==
    /\ Returned
    /\ local.ChangedPending # EmptyName
    /\ DepartedUnits(local) # {}
    /\ JoinedUnits(local) # {}
    /\ remoteBroken
    /\ result.hook.Kind = "RelationChanged"
    /\ result.hook.ChangeVersion = 1

\* C2: with no pending change and some local member missing from the remote
\* snapshot, the call returns RelationDeparted for the smallest such unit
\* with that unit's local version, whatever remoteBroken is and whatever
\* joins or changes are outstanding.
C2_DeparturesFirst ==
    (Returned /\ local.ChangedPending = EmptyName /\ DepartedUnits(local) # {}) =>
        LET u == Smallest(DepartedUnits(local))
        IN  result = Return(HookInfo("RelationDeparted", local.RelationId, u,
                                     local.Members[u]), "nil")

\* local {a:1}, remote {b:1}: Departed(a,1) was returned and committed, and
\* the next call has returned Joined(b,1).
C2_Witness ==
    /\ initial.ChangedPending = EmptyName
    /\ initial.Members = (NameOf(1) :> 1)
    /\ remote.Members = (NameOf(2) :> 1)
    /\ emitted = <<HookInfo("RelationDeparted", 1, NameOf(1), 1),
                   HookInfo("RelationJoined", 1, NameOf(2), 1)>>

\* C3: with no pending change, no departure due and remoteBroken set, the
\* call returns RelationBroken with an empty RemoteUnit and a zero
\* ChangeVersion, even when joins or changes are outstanding.
C3_TeardownBeforeJoins ==
    (Returned /\ local.ChangedPending = EmptyName /\ DepartedUnits(local) = {}
        /\ remoteBroken) =>
        result = Return([Kind |-> "RelationBroken", RelationId |-> local.RelationId,
                         RemoteUnit |-> EmptyName, ChangeVersion |-> 0], "nil")

\* RelationBroken is returned while a join and a change are outstanding.
C3_Witness ==
    /\ Returned
    /\ remoteBroken
    /\ JoinedUnits(local) # {}
    /\ ChangedUnits(local) # {}
    /\ result.hook.Kind = "RelationBroken"

\* C4: with no pending change, no departure due and remoteBroken false, if
\* some remote member is not a local member the call returns RelationJoined
\* for the smallest such unit with its remote version, even when a unit
\* present on both sides has a differing version.
C4_JoinsBeforeChanges ==
    (Returned /\ local.ChangedPending = EmptyName /\ DepartedUnits(local) = {}
        /\ ~remoteBroken /\ JoinedUnits(local) # {}) =>
        LET u == Smallest(JoinedUnits(local))
        IN  result = Return(HookInfo("RelationJoined", local.RelationId, u,
                                     remote.Members[u]), "nil")

\* A join is returned while a smaller-named unit has a differing version.
C4_Witness ==
    /\ Returned
    /\ result.hook.Kind = "RelationJoined"
    /\ \E u \in ChangedUnits(local) : StringLess(u, result.hook.RemoteUnit)

\* C5: when no pending change, departure, teardown or join applies, the call
\* returns RelationChanged for the smallest unit on both sides whose remote
\* version differs from the local one, with the remote version, also when
\* the remote version is the smaller one.
C5_ChangesByInequality ==
    (Returned /\ local.ChangedPending = EmptyName /\ DepartedUnits(local) = {}
        /\ ~remoteBroken /\ JoinedUnits(local) = {} /\ ChangedUnits(local) # {}) =>
        LET u == Smallest(ChangedUnits(local))
        IN  result = Return(HookInfo("RelationChanged", local.RelationId, u,
                                     remote.Members[u]), "nil")

\* A change is returned for a unit whose version went down.
C5_Witness ==
    /\ Returned
    /\ local.ChangedPending = EmptyName
    /\ result.hook.Kind = "RelationChanged"
    /\ result.hook.ChangeVersion < local.Members[result.hook.RemoteUnit]

\* C6: the call returns NoOperation exactly when ChangedPending is empty,
\* remoteBroken is false and both member maps are equal; otherwise it
\* returns one hook of one of the four relation kinds.
C6_NoOperationIffUpToDate ==
    Returned =>
        /\ (result.err = "ErrNoOperation") <=>
              (local.ChangedPending = EmptyName /\ ~remoteBroken
                 /\ local.Members = remote.Members)
        /\ result.err = "ErrNoOperation" => result.hook = NoHook
        /\ result.err # "ErrNoOperation" =>
              /\ result.err = "nil"
              /\ result.hook.Kind \in {"RelationJoined", "RelationChanged",
                                       "RelationDeparted", "RelationBroken"}

\* NoOperation is returned for equal, non-empty member maps.
C6_Witness ==
    /\ pc = "done"
    /\ result.err = "ErrNoOperation"
    /\ local.Members # <<>>
    /\ calls > 1

\* ===================================================================== *
\* Repeated calls with the commit effects applied in between             *
\* ===================================================================== *
\* AllUnits of the run: the union of the initial local and remote names.
AllUnits0 == DOMAIN initial.Members \cup DOMAIN remote.Members

\* The claimed bound on the number of calls, and the one that holds: a
\* pending change for a unit that is no remote member costs a replayed
\* RelationChanged on top of that unit's RelationDeparted.
ClaimedCalls == Cardinality(AllUnits0) + 1
PendingGone ==
    initial.ChangedPending # EmptyName /\ initial.ChangedPending \notin DOMAIN remote.Members
ActualCalls ==
    IF PendingGone THEN Cardinality(AllUnits0 \cup {initial.ChangedPending}) + 2
    ELSE ClaimedCalls

KindRank(kind) ==
    IF kind = "RelationDeparted" THEN 1
    ELSE IF kind = "RelationJoined" THEN 2
    ELSE IF kind = "RelationChanged" THEN 3
    ELSE 4

EmittedUnits(kind) ==
    {emitted[i].RemoteUnit : i \in {k \in 1..Len(emitted) : emitted[k].Kind = kind}}

\* C8: with ChangedPending empty, a fixed remote snapshot and remoteBroken
\* false, the hooks returned over successive calls are the departures in
\* ascending unit-name order, then the joins in ascending order, then the
\* changes in ascending order, one hook for each outstanding difference.
C8_EmissionOrder ==
    (initial.ChangedPending = EmptyName /\ ~remoteBroken) =>
        /\ \A i, j \in 1..Len(emitted) :
              i < j =>
                 \/ KindRank(emitted[i].Kind) < KindRank(emitted[j].Kind)
                 \/ /\ emitted[i].Kind = emitted[j].Kind
                    /\ StringLess(emitted[i].RemoteUnit, emitted[j].RemoteUnit)
        /\ \A i \in 1..Len(emitted) : KindRank(emitted[i].Kind) < 4
        /\ pc = "done" =>
              /\ EmittedUnits("RelationDeparted") = DepartedUnits(initial)
              /\ EmittedUnits("RelationJoined") = JoinedUnits(initial)
              /\ EmittedUnits("RelationChanged") = ChangedUnits(initial)

\* local {}, remote {a:1, aa:1}: Joined(a,1) is returned before Joined(aa,1),
\* and after both commits the relation is up to date.
C8_Witness ==
    /\ initial.ChangedPending = EmptyName
    /\ ~remoteBroken
    /\ initial.Members = <<>>
    /\ pc = "done"
    /\ Len(emitted) = 2
    /\ emitted[1] = HookInfo("RelationJoined", 1, Smallest(UnitNames), 1)
    /\ emitted[2].Kind = "RelationJoined"
    /\ emitted[2].ChangeVersion = 1

\* C9: the hook returned depends on the local state, the remote snapshot and
\* remoteBroken alone: whatever order the member names are iterated in, the
\* call returns what it returned.
C9_IterationOrderIrrelevant ==
    Returned =>
        \A values \in Orders(allUnitNames(local, remote)) :
            nextRelationHook(local, remote, remoteBroken, values) = result

\* A hook was chosen among two departing units, which can be iterated in
\* two orders.
C9_Witness ==
    /\ Returned
    /\ local.ChangedPending = EmptyName
    /\ Cardinality(DepartedUnits(local)) > 1
    /\ result.hook.Kind = "RelationDeparted"

\* ===================================================================== *
\* The relation set: relations.NextHook, update, add and CommitHook      *
\* ===================================================================== *
MaxRelations == 2
MaxSetUnits == 1
MaxAttempts == 1

RelationIds == 1..MaxRelations
SetUnitNames == {NameOf(i) : i \in 1..MaxSetUnits}
SetMemberMaps == UNION {[D -> Versions] : D \in SUBSET SetUnitNames}
Lives == {"alive", "dying", "dead"}
\* The snapshots of a relation: a dead relation has no members left.
SetSnapshots ==
    {snap \in [Life : Lives, Members : SetMemberMaps] :
        snap.Life = "dead" => snap.Members = <<>>}

\* remotestate.RelationSnapshot{}
EmptySnapshot == [Life |-> "", Members |-> <<>>]

MapPut(m, k, v) == [x \in DOMAIN m \cup {k} |-> IF x = k THEN v ELSE m[x]]
MapDelete(m, k) == [x \in DOMAIN m \ {k} |-> m[x]]

\* The State of a state directory that holds no members yet.
EmptyState(id) == [RelationId |-> id, Members |-> <<>>, ChangedPending |-> EmptyName]

\* NewRelationer(ru, dir)
NewRelationer(state, implicit) == [State |-> state, implicit |-> implicit, dying |-> FALSE]

\* ReadStateDir and StateDir.Remove on the set of state directories.
ReadStateDir(ds, id) == ds \cup {id}
RemoveDir(ds, id) == ds \ {id}

\* The states a state directory may hold when it is loaded at startup.
DurableStates(id) ==
    {st \in [RelationId : {id}, Members : SetMemberMaps,
             ChangedPending : SetUnitNames \cup {EmptyName}] :
        st.ChangedPending \in DOMAIN st.Members \cup {EmptyName}}

\* The relationers NewRelations may end with: one for every joined relation,
\* each with the state of its directory; an implicit one has run no hook.
StartRelationers ==
    UNION {
        {rs \in [D -> UNION {{NewRelationer(st, FALSE) : st \in DurableStates(id)}
                              \cup {NewRelationer(EmptyState(id), TRUE)} : id \in D}] :
            \A id \in D : rs[id].State.RelationId = id}
        : D \in SUBSET RelationIds}

SetInit ==
    /\ relationers \in StartRelationers
    /\ dirs = DOMAIN relationers
    /\ remoteState = [Life |-> "alive", Relations |-> <<>>]
    /\ abort = FALSE
    /\ spc = "idle"
    /\ call = NoCall
    /\ adding = NoAdd
    /\ ret = Return(NoHook, "none")

\* No single relation is looked at: the state of relVars under SpecSet.
RelQuiet ==
    /\ local = EmptyState(0)
    /\ remote = EmptySnapshot
    /\ remoteBroken = FALSE
    /\ result = Return(NoHook, "none")
    /\ pc = "done"
    /\ calls = 0
    /\ emitted = <<>>
    /\ initial = EmptyState(0)

InitSet == SetInit /\ RelQuiet

\* ------------------------------------------------ the remote state moves
\* The watcher's snapshot of a relation appears or changes between calls.
RemoteRelationChanges ==
    /\ spc = "idle" /\ ~abort
    /\ \E id \in RelationIds, snap \in SetSnapshots :
          /\ IF id \in DOMAIN remoteState.Relations
             THEN remoteState.Relations[id] # snap ELSE TRUE
          /\ remoteState' = [remoteState EXCEPT !.Relations = MapPut(@, id, snap)]
    /\ UNCHANGED <<relationers, dirs, abort, spc, call, adding, ret, relVars>>

\* A relation leaves the snapshot.
RemoteRelationRemoved ==
    /\ spc = "idle" /\ ~abort
    /\ \E id \in DOMAIN remoteState.Relations :
          remoteState' = [remoteState EXCEPT !.Relations = MapDelete(@, id)]
    /\ UNCHANGED <<relationers, dirs, abort, spc, call, adding, ret, relVars>>

\* The unit's own life changes: it is set dying, or found alive again.
RemoteUnitLife ==
    /\ spc = "idle" /\ ~abort
    /\ \E life \in {"alive", "dying"} \ {remoteState.Life} :
          remoteState' = [remoteState EXCEPT !.Life = life]
    /\ UNCHANGED <<relationers, dirs, abort, spc, call, adding, ret, relVars>>

\* The abort channel is closed.  Only add reads it, so it is closed while
\* an add is in progress, before or after the unit watcher is started; the
\* loop that calls NextHook ends with it.  An add that is blocked in the
\* select and has been woken by the watcher has taken that case already.
AbortCloses ==
    /\ spc = "add"
    /\ ~abort
    /\ ~(adding.at = "parked" /\ adding.event # "none")
    /\ abort' = TRUE
    /\ UNCHANGED <<relationers, dirs, remoteState, spc, call, adding, ret, relVars>>

\* The unit watcher has a change ready on its channel, or its channel is
\* closed.  An add that is blocked in the select and has been woken by the
\* abort channel has taken that case already.
WatcherEvent ==
    /\ spc = "add"
    /\ adding.watcher = "running"
    /\ adding.at \in {"select", "parked", "join"}
    /\ adding.event = "none"
    /\ ~(adding.at = "parked" /\ abort)
    /\ \E event \in {"change", "closed"} :
          adding' = [adding EXCEPT !.event = event]
    /\ UNCHANGED <<relationers, dirs, remoteState, abort, spc, call, ret, relVars>>

\* ------------------------------------------------------------- NextHook
\* NextHook is called: update starts ranging over remoteState.Relations.
NextHookStart ==
    /\ spc = "idle" /\ ~abort
    /\ \E order \in Orders(DOMAIN remoteState.Relations) :
          call' = [NoCall EXCEPT !.op = "NextHook", !.todo = order]
    /\ spc' = "update"
    /\ ret' = Return(NoHook, "none")
    /\ UNCHANGED <<relationers, dirs, remoteState, abort, adding, relVars>>

\* update (and with it NextHook) returns an error; did tells what update
\* did for the relation id it was looking at.
ReturnError(did, err) ==
    /\ ret' = Return(NoHook, err)
    /\ spc' = "returned"
    /\ call' = [call EXCEPT !.todo = <<>>, !.id = Head(call.todo), !.did = did]

\* update goes on with the next relation id; did tells what it did for
\* the one it leaves.
Continue(did) ==
    /\ call' = [call EXCEPT !.todo = Tail(@), !.id = Head(call.todo), !.did = did]
    /\ spc' = "update"
    /\ ret' = ret

\* setDying on a registered relationer whose SetDying succeeded.
setDying(rs, id) ==
    IF rs[id].implicit THEN MapDelete(rs, id)
    ELSE [rs EXCEPT ![id].dying = TRUE]

\* Mutant: SetDying is called whenever the relation is not Alive.
UpdateKnownNotAlive ==
    /\ spc = "update" /\ call.todo # <<>>
    /\ LET id == Head(call.todo) IN
          /\ id \in DOMAIN relationers
          /\ IF remoteState.Relations[id].Life # "alive"
             THEN \E ok \in BOOLEAN :
                     IF ok THEN /\ relationers' = setDying(relationers, id)
                                /\ Continue("SetDying")
                     ELSE UNCHANGED relationers /\ ReturnError("SetDying", "error")
             ELSE UNCHANGED relationers /\ Continue("known")
    /\ UNCHANGED <<dirs, remoteState, abort, adding, relVars>>

\* update, for a relation id that has a relationer.
UpdateKnown ==
    /\ spc = "update" /\ call.todo # <<>>
    /\ LET id == Head(call.todo) IN
          /\ id \in DOMAIN relationers
          /\ IF remoteState.Relations[id].Life = "dying"
             THEN \E ok \in BOOLEAN :
                     IF ok THEN /\ relationers' = setDying(relationers, id)
                                /\ Continue("SetDying")
                     ELSE UNCHANGED relationers /\ ReturnError("SetDying", "error")
             ELSE UNCHANGED relationers /\ Continue("known")
    /\ UNCHANGED <<dirs, remoteState, abort, adding, relVars>>

\* Mutant: the state directory is read before the life is looked at.
UpdateSkipNotAliveReadsDir ==
    /\ spc = "update" /\ call.todo # <<>>
    /\ LET id == Head(call.todo) IN
          /\ id \notin DOMAIN relationers
          /\ remoteState.Relations[id].Life # "alive"
          /\ dirs' = ReadStateDir(dirs, id)
    /\ Continue("not alive")
    /\ UNCHANGED <<relationers, remoteState, abort, adding, relVars>>

\* update, for an unknown relation id that is not alive: skipped.
UpdateSkipNotAlive ==
    /\ spc = "update" /\ call.todo # <<>>
    /\ LET id == Head(call.todo) IN
          /\ id \notin DOMAIN relationers
          /\ remoteState.Relations[id].Life # "alive"
    /\ Continue("not alive")
    /\ UNCHANGED <<relationers, dirs, remoteState, abort, adding, relVars>>

\* Mutant: only a dead relation is skipped; a dying one is added.
UpdateNewNotDead ==
    /\ spc = "update" /\ call.todo # <<>>
    /\ LET id == Head(call.todo) IN
          /\ id \notin DOMAIN relationers
          /\ remoteState.Relations[id].Life # "dead"
          /\ \E outcome \in {"notfound", "error", "notimplemented", "ok"} :
                \/ /\ outcome \in {"notfound", "notimplemented"}
                   /\ Continue(outcome)
                   /\ UNCHANGED <<dirs, adding>>
                \/ /\ outcome = "error"
                   /\ ReturnError("lookup", "error")
                   /\ UNCHANGED <<dirs, adding>>
                \/ /\ outcome = "ok"
                   /\ dirs' = ReadStateDir(dirs, id)
                   /\ \E implicit \in BOOLEAN :
                         adding' = [NoAdd EXCEPT !.id = id, !.implicit = implicit,
                                                 !.at = "watch",
                                                 !.state = EmptyState(id)]
                   /\ spc' = "add"
                   /\ UNCHANGED <<call, ret>>
    /\ UNCHANGED <<relationers, remoteState, abort, relVars>>

\* Mutant: an endpoint the charm does not implement is an error.
UpdateNewRejectsUnknownEndpoint ==
    /\ spc = "update" /\ call.todo # <<>>
    /\ LET id == Head(call.todo) IN
          /\ id \notin DOMAIN relationers
          /\ remoteState.Relations[id].Life = "alive"
          /\ \E outcome \in {"notfound", "error", "notimplemented", "ok"} :
                \/ /\ outcome = "notfound"
                   /\ Continue(outcome)
                   /\ UNCHANGED <<dirs, adding>>
                \/ /\ outcome \in {"error", "notimplemented"}
                   /\ ReturnError(IF outcome = "error" THEN "lookup" ELSE outcome, "error")
                   /\ UNCHANGED <<dirs, adding>>
                \/ /\ outcome = "ok"
                   /\ dirs' = ReadStateDir(dirs, id)
                   /\ \E implicit \in BOOLEAN :
                         adding' = [NoAdd EXCEPT !.id = id, !.implicit = implicit,
                                                 !.at = "watch",
                                                 !.state = EmptyState(id)]
                   /\ spc' = "add"
                   /\ UNCHANGED <<call, ret>>
    /\ UNCHANGED <<relationers, remoteState, abort, relVars>>

\* Mutant: update goes on with the next relation id while add runs.
UpdateNewMovesOn ==
    /\ spc = "update" /\ call.todo # <<>>
    /\ LET id == Head(call.todo) IN
          /\ id \notin DOMAIN relationers
          /\ remoteState.Relations[id].Life = "alive"
          /\ \E outcome \in {"notfound", "error", "notimplemented", "ok"} :
                \/ /\ outcome \in {"notfound", "notimplemented"}
                   /\ Continue(outcome)
                   /\ UNCHANGED <<dirs, adding>>
                \/ /\ outcome = "error"
                   /\ ReturnError("lookup", "error")
                   /\ UNCHANGED <<dirs, adding>>
                \/ /\ outcome = "ok"
                   /\ dirs' = ReadStateDir(dirs, id)
                   /\ \E implicit \in BOOLEAN :
                         adding' = [NoAdd EXCEPT !.id = id, !.implicit = implicit,
                                                 !.at = "watch",
                                                 !.state = EmptyState(id)]
                   /\ spc' = "add"
                   /\ call' = [call EXCEPT !.todo = Tail(@), !.id = id, !.did = "add"]
                   /\ UNCHANGED ret
    /\ UNCHANGED <<relationers, remoteState, abort, relVars>>

\* update, for an unknown alive relation id: up to the call of add.
UpdateNew ==
    /\ spc = "update" /\ call.todo # <<>>
    /\ LET id == Head(call.todo) IN
          /\ id \notin DOMAIN relationers
          /\ remoteState.Relations[id].Life = "alive"
          /\ \E outcome \in {"notfound", "error", "notimplemented", "ok"} :
                \/ /\ outcome \in {"notfound", "notimplemented"}
                   /\ Continue(outcome)
                   /\ UNCHANGED <<dirs, adding>>
                \/ /\ outcome = "error"
                   /\ ReturnError("lookup", "error")
                   /\ UNCHANGED <<dirs, adding>>
                \/ /\ outcome = "ok"
                   /\ dirs' = ReadStateDir(dirs, id)
                   /\ \E implicit \in BOOLEAN :
                         adding' = [NoAdd EXCEPT !.id = id, !.implicit = implicit,
                                                 !.at = "watch",
                                                 !.state = EmptyState(id)]
                   /\ spc' = "add"
                   /\ UNCHANGED <<call, ret>>
    /\ UNCHANGED <<relationers, remoteState, abort, relVars>>

\* -------------------------------------------------------------------- add
\* Mutant: every error of add is returned by update.
AfterAddPropagates(addErr) ==
    /\ adding' = NoAdd
    /\ IF addErr = "nil"
       THEN Continue("add") /\ UNCHANGED dirs
       ELSE \E removed \in BOOLEAN :
               /\ dirs' = IF removed THEN RemoveDir(dirs, adding.id) ELSE dirs
               /\ ReturnError(IF removed THEN "add failed" ELSE "remove failed", addErr)

\* Mutant: the state directory is removed only when add failed with
\* "cannot enter scope".
AfterAddRemovesOnRejection(addErr) ==
    /\ adding' = NoAdd
    /\ IF addErr = "nil"
       THEN Continue("add") /\ UNCHANGED dirs
       ELSE IF addErr # "ErrCannotEnterScope"
       THEN ReturnError("add", addErr) /\ UNCHANGED dirs
       ELSE \E removed \in BOOLEAN :
               /\ dirs' = IF removed THEN RemoveDir(dirs, adding.id) ELSE dirs
               /\ IF ~removed THEN ReturnError("remove failed", "error")
                  ELSE Continue("add failed")

\* Lines 391-402 of update, once add has returned addErr.  After a failed
\* add dir.Remove() is called, and did tells how it went: "add failed"
\* when the directory is gone, "remove failed" when it is not.
AfterAdd(addErr) ==
    /\ adding' = NoAdd
    /\ IF addErr = "nil"
       THEN Continue("add") /\ UNCHANGED dirs
       ELSE \E removed \in BOOLEAN :
               /\ dirs' = IF removed THEN RemoveDir(dirs, adding.id) ELSE dirs
               /\ IF addErr # "ErrCannotEnterScope"
                  THEN ReturnError(IF removed THEN "add failed" ELSE "remove failed",
                                   addErr)
                  ELSE IF ~removed THEN ReturnError("remove failed", "error")
                  ELSE Continue("add failed")

\* update goes on after add has returned.
UpdateAfterAdd ==
    /\ spc = "added"
    /\ AfterAdd(adding.err)
    /\ UNCHANGED <<relationers, remoteState, abort, relVars>>

\* Mutant: the unit watcher is left running when add is aborted.
AddReturnsAbortKeepsWatcher(a, err) ==
    /\ \E stopErr \in {"nil", "stop failed"} :
          adding' = IF err = "ErrLoopAborted"
                    THEN [a EXCEPT !.at = "returned", !.err = err]
                    ELSE [a EXCEPT !.watcher = "stopped", !.stops = @ + 1,
                                   !.at = "returned",
                                   !.err = IF err = "nil" THEN stopErr ELSE err]
    /\ spc' = "added"
    /\ UNCHANGED <<dirs, call, ret>>

\* add returns err while the unit watcher runs (a is the add as it
\* stands): the deferred worker.Stop stops the watcher, and its error
\* replaces a nil err.
AddReturns(a, err) ==
    /\ \E stopErr \in {"nil", "stop failed"} :
          adding' = [a EXCEPT !.watcher = "stopped", !.stops = @ + 1,
                              !.at = "returned",
                              !.err = IF err = "nil" THEN stopErr ELSE err]
    /\ spc' = "added"
    /\ UNCHANGED <<dirs, call, ret>>

\* add up to the start of the unit watcher: rel.Unit or caasUnit.Watch
\* may fail, and add then returns with no watcher to stop.
AddWatch ==
    /\ spc = "add" /\ adding.at = "watch"
    /\ \E ok \in BOOLEAN :
          IF ok THEN /\ adding' = [adding EXCEPT !.watcher = "running", !.at = "select"]
                     /\ UNCHANGED spc
          ELSE /\ adding' = [adding EXCEPT !.at = "returned", !.err = "watch failed"]
               /\ spc' = "added"
    /\ UNCHANGED <<relationers, dirs, remoteState, abort, call, ret, relVars>>

\* select: no case is ready, add blocks.
AddPark ==
    /\ spc = "add" /\ adding.at = "select"
    /\ ~abort /\ adding.event = "none"
    /\ adding' = [adding EXCEPT !.at = "parked"]
    /\ UNCHANGED <<relationers, dirs, remoteState, abort, spc, call, ret, relVars>>

\* Mutant: an abort is returned as an ordinary error.
AddAbortedAsError ==
    /\ spc = "add" /\ adding.at \in {"select", "parked"}
    /\ abort
    /\ AddReturns([adding EXCEPT !.took = "abort"], "error")
    /\ UNCHANGED <<relationers, remoteState, abort, relVars>>

\* select takes <-r.abort, which is closed.
AddAborted ==
    /\ spc = "add" /\ adding.at \in {"select", "parked"}
    /\ abort
    /\ AddReturns([adding EXCEPT !.took = "abort"], "ErrLoopAborted")
    /\ UNCHANGED <<relationers, remoteState, abort, relVars>>

\* Mutant: a closed watcher channel is answered like an abort.
AddWatcherClosedAsAbort ==
    /\ spc = "add" /\ adding.at \in {"select", "parked"}
    /\ adding.event = "closed"
    /\ AddReturns([adding EXCEPT !.took = "closed"], "ErrLoopAborted")
    /\ UNCHANGED <<relationers, remoteState, abort, relVars>>

\* select takes the watcher's channel, which is closed.
AddWatcherClosed ==
    /\ spc = "add" /\ adding.at \in {"select", "parked"}
    /\ adding.event = "closed"
    /\ AddReturns([adding EXCEPT !.took = "closed"], "unit watcher closed")
    /\ UNCHANGED <<relationers, remoteState, abort, relVars>>

\* select takes a change of the unit and add calls relationer.Join.
AddChange ==
    /\ spc = "add" /\ adding.at \in {"select", "parked"}
    /\ adding.event = "change"
    /\ adding' = [adding EXCEPT !.took = "change", !.event = "none", !.at = "join",
                                !.outcome = "", !.attempts = @ + 1]
    /\ UNCHANGED <<relationers, dirs, remoteState, abort, spc, call, ret, relVars>>

\* Mutant: a transient rejection ends the add like any other error.
AddJoinSurfacesRejection ==
    /\ spc = "add" /\ adding.at = "join"
    /\ \E outcome \in {"ok", "yet", "cannot", "error"} :
          LET a == [adding EXCEPT !.outcome = outcome] IN
          \/ /\ outcome = "ok"
             /\ relationers' = MapPut(relationers, adding.id,
                                   NewRelationer(adding.state, adding.implicit))
             /\ AddReturns(a, "nil")
          \/ /\ outcome = "cannot"
             /\ AddReturns(a, "ErrCannotEnterScope")
             /\ UNCHANGED relationers
          \/ /\ outcome \in {"yet", "error"}
             /\ AddReturns(a, "enter scope failed")
             /\ UNCHANGED relationers
    /\ UNCHANGED <<remoteState, abort, relVars>>

\* Mutant: the relationer is registered whatever Join answered last.
AddJoinRegistersOnError ==
    /\ spc = "add" /\ adding.at = "join"
    /\ \E outcome \in {"ok", "yet", "cannot", "error"} :
          LET a == [adding EXCEPT !.outcome = outcome] IN
          \/ /\ outcome = "yet"
             /\ adding.rejections < MaxAttempts
             /\ adding' = [a EXCEPT !.rejections = @ + 1, !.at = "select"]
             /\ UNCHANGED <<relationers, dirs, spc, call, ret>>
          \/ /\ outcome \in {"ok", "cannot", "error"}
             /\ relationers' = MapPut(relationers, adding.id,
                                   NewRelationer(adding.state, adding.implicit))
             /\ AddReturns(a, IF outcome = "ok" THEN "nil"
                              ELSE IF outcome = "cannot" THEN "ErrCannotEnterScope"
                              ELSE "enter scope failed")
    /\ UNCHANGED <<remoteState, abort, relVars>>

\* Mutant: after a transient rejection relationer.Join is called again at
\* once, without a change of the unit.
AddJoinRetriesAtOnce ==
    /\ spc = "add" /\ adding.at = "join"
    /\ \E outcome \in {"ok", "yet", "cannot", "error"} :
          LET a == [adding EXCEPT !.outcome = outcome] IN
          \/ /\ outcome = "yet"
             /\ adding.rejections < MaxAttempts
             /\ adding' = [a EXCEPT !.rejections = @ + 1, !.attempts = @ + 1]
             /\ UNCHANGED <<relationers, dirs, spc, call, ret>>
          \/ /\ outcome = "ok"
             /\ relationers' = MapPut(relationers, adding.id,
                                   NewRelationer(adding.state, adding.implicit))
             /\ AddReturns(a, "nil")
          \/ /\ outcome = "cannot"
             /\ AddReturns(a, "ErrCannotEnterScope")
             /\ UNCHANGED relationers
          \/ /\ outcome = "error"
             /\ AddReturns(a, "enter scope failed")
             /\ UNCHANGED relationers
    /\ UNCHANGED <<remoteState, abort, relVars>>

\* Mutant: a transient rejection ends the loop and add returns nil.
AddJoinBreaksOnRejection ==
    /\ spc = "add" /\ adding.at = "join"
    /\ \E outcome \in {"ok", "yet", "cannot", "error"} :
          LET a == [adding EXCEPT !.outcome = outcome] IN
          \/ /\ outcome = "yet"
             /\ adding.rejections < MaxAttempts
             /\ AddReturns([a EXCEPT !.rejections = @ + 1], "nil")
             /\ UNCHANGED relationers
          \/ /\ outcome = "ok"
             /\ relationers' = MapPut(relationers, adding.id,
                                   NewRelationer(adding.state, adding.implicit))
             /\ AddReturns(a, "nil")
          \/ /\ outcome = "cannot"
             /\ AddReturns(a, "ErrCannotEnterScope")
             /\ UNCHANGED relationers
          \/ /\ outcome = "error"
             /\ AddReturns(a, "enter scope failed")
             /\ UNCHANGED relationers
    /\ UNCHANGED <<remoteState, abort, relVars>>

\* relationer.Join returns: lines 444-454.
AddJoin ==
    /\ spc = "add" /\ adding.at = "join"
    /\ \E outcome \in {"ok", "yet", "cannot", "error"} :
          LET a == [adding EXCEPT !.outcome = outcome] IN
          \/ /\ outcome = "yet"
             /\ adding.rejections < MaxAttempts
             /\ adding' = [a EXCEPT !.rejections = @ + 1, !.at = "select"]
             /\ UNCHANGED <<relationers, dirs, spc, call, ret>>
          \/ /\ outcome = "ok"
             /\ relationers' = MapPut(relationers, adding.id,
                                   NewRelationer(adding.state, adding.implicit))
             /\ AddReturns(a, "nil")
          \/ /\ outcome = "cannot"
             /\ AddReturns(a, "ErrCannotEnterScope")
             /\ UNCHANGED relationers
          \/ /\ outcome = "error"
             /\ AddReturns(a, "enter scope failed")
             /\ UNCHANGED relationers
    /\ UNCHANGED <<remoteState, abort, relVars>>

\* ------------------------------------------- NextHook after update
\* Mutant: remoteBroken is set but the snapshot is handed on as it is.
relationHooksKeepSnapshot(relationer, relationSnapshot, unitLife) ==
    LET dying == unitLife = "dying" \/ relationSnapshot.Life = "dying"
    IN  {nextRelationHook(relationer.State, relationSnapshot, dying, values) :
            values \in Orders(allUnitNames(relationer.State, relationSnapshot))}

\* Mutant: only the relation's own life is looked at, not the unit's.
relationHooksRelationLifeOnly(relationer, relationSnapshot, unitLife) ==
    LET dying == relationSnapshot.Life = "dying"
        snapshot == IF dying THEN EmptySnapshot ELSE relationSnapshot
    IN  {nextRelationHook(relationer.State, snapshot, dying, values) :
            values \in Orders(allUnitNames(relationer.State, snapshot))}

\* Lines 178-187: the hooks nextRelationHook may return for one relation.
relationHooks(relationer, relationSnapshot, unitLife) ==
    LET dying == unitLife = "dying" \/ relationSnapshot.Life = "dying"
        snapshot == IF dying THEN EmptySnapshot ELSE relationSnapshot
    IN  {nextRelationHook(relationer.State, snapshot, dying, values) :
            values \in Orders(allUnitNames(relationer.State, snapshot))}

\* Mutant: the loop returns what the first relationer answers, be it
\* ErrNoOperation.
RECURSIVE firstHooksFirstAnswer(_, _, _)
firstHooksFirstAnswer(rs, rstate, order) ==
    IF order = <<>> THEN {Return(NoHook, "ErrNoOperation")}
    ELSE LET id == Head(order) IN
         IF id \notin DOMAIN rs \/ rs[id].implicit
         THEN firstHooksFirstAnswer(rs, rstate, Tail(order))
         ELSE relationHooks(rs[id], rstate.Relations[id], rstate.Life)

\* Mutant: implicit relationers are asked for their hook like any other.
RECURSIVE firstHooksImplicitToo(_, _, _)
firstHooksImplicitToo(rs, rstate, order) ==
    IF order = <<>> THEN {Return(NoHook, "ErrNoOperation")}
    ELSE LET id == Head(order) IN
         IF id \notin DOMAIN rs
         THEN firstHooksImplicitToo(rs, rstate, Tail(order))
         ELSE UNION {IF r.err = "ErrNoOperation"
                     THEN firstHooksImplicitToo(rs, rstate, Tail(order))
                     ELSE {r} :
                        r \in relationHooks(rs[id], rstate.Relations[id], rstate.Life)}

\* Lines 170-196: what the loop over remoteState.Relations may return when
\* it ranges over the ids in this order.
RECURSIVE firstHooks(_, _, _)
firstHooks(rs, rstate, order) ==
    IF order = <<>> THEN {Return(NoHook, "ErrNoOperation")}
    ELSE LET id == Head(order) IN
         IF id \notin DOMAIN rs \/ rs[id].implicit
         THEN firstHooks(rs, rstate, Tail(order))
         ELSE UNION {IF r.err = "ErrNoOperation"
                     THEN firstHooks(rs, rstate, Tail(order))
                     ELSE {r} :
                        r \in relationHooks(rs[id], rstate.Relations[id], rstate.Life)}

\* Mutant: localState.Kind is not looked at.
NextHookReturnsWhateverKind ==
    /\ spc = "update" /\ call.todo = <<>>
    /\ \E kind \in {"Continue", "RunHook"} :
          /\ call' = [call EXCEPT !.Kind = kind]
          /\ \E order \in Orders(DOMAIN remoteState.Relations) :
                ret' \in firstHooks(relationers, remoteState, order)
    /\ spc' = "returned"
    /\ UNCHANGED <<relationers, dirs, remoteState, abort, adding, relVars>>

\* update is through: NextHook looks for a hook and returns.
NextHookReturns ==
    /\ spc = "update" /\ call.todo = <<>>
    /\ \E kind \in {"Continue", "RunHook"} :
          /\ call' = [call EXCEPT !.Kind = kind]
          /\ IF kind # "Continue"
             THEN ret' = Return(NoHook, "ErrNoOperation")
             ELSE \E order \in Orders(DOMAIN remoteState.Relations) :
                     ret' \in firstHooks(relationers, remoteState, order)
    /\ spc' = "returned"
    /\ UNCHANGED <<relationers, dirs, remoteState, abort, adding, relVars>>

\* ----------------------------------------------------------- CommitHook
IsRelation(kind) ==
    kind \in {"RelationJoined", "RelationChanged", "RelationDeparted", "RelationBroken"}

\* Mutant: a committed RelationBroken empties the state and keeps the
\* relationer.
commitHookKeepsRelationer(rs, hookInfo, committed) ==
    IF ~IsRelation(hookInfo.Kind) \/ hookInfo.RelationId \notin DOMAIN rs THEN rs
    ELSE IF committed
    THEN [rs EXCEPT ![hookInfo.RelationId].State = commitState(@, hookInfo)]
    ELSE rs

\* relations.CommitHook on the relationers; committed tells whether the
\* relationer's own CommitHook succeeded.
commitHook(rs, hookInfo, committed) ==
    IF ~IsRelation(hookInfo.Kind) \/ hookInfo.RelationId \notin DOMAIN rs THEN rs
    ELSE IF hookInfo.Kind = "RelationBroken" THEN MapDelete(rs, hookInfo.RelationId)
    ELSE IF committed
    THEN [rs EXCEPT ![hookInfo.RelationId].State = commitState(@, hookInfo)]
    ELSE rs

\* The hook NextHook returned has run and is committed.
CommitHook ==
    /\ spc = "returned" /\ ret.err = "nil"
    /\ \E committed \in BOOLEAN :
          /\ relationers' = commitHook(relationers, ret.hook, committed)
          /\ dirs' = IF committed /\ ret.hook.Kind = "RelationBroken"
                        /\ ret.hook.RelationId \in DOMAIN relationers
                     THEN RemoveDir(dirs, ret.hook.RelationId)
                     ELSE dirs
    /\ spc' = "idle"
    /\ call' = NoCall
    /\ ret' = Return(NoHook, "none")
    /\ UNCHANGED <<remoteState, abort, adding, relVars>>

\* The caller goes on without committing anything.
ReturnToCaller ==
    /\ spc \in {"returned", "called"}
    /\ spc' = "idle"
    /\ call' = NoCall
    /\ ret' = Return(NoHook, "none")
    /\ UNCHANGED <<relationers, dirs, remoteState, abort, adding, relVars>>

NextSet ==
    \/ RemoteRelationChanges
    \/ RemoteRelationRemoved
    \/ RemoteUnitLife
    \/ AbortCloses
    \/ WatcherEvent
    \/ NextHookStart
    \/ UpdateKnown
    \/ UpdateSkipNotAlive
    \/ UpdateNew
    \/ AddWatch
    \/ AddPark
    \/ AddAborted
    \/ AddWatcherClosed
    \/ AddChange
    \/ AddJoin
    \/ UpdateAfterAdd
    \/ NextHookReturns
    \/ CommitHook
    \/ ReturnToCaller

SpecSet == InitSet /\ [][NextSet]_vars

\* ------------------------------------------- a unit that joins relations
\* A unit that has joined no relation yet is handed a snapshot of
\* relations without remote members, and NextHook is called on it again
\* and again: every alive relation is added by update.
JoinSnapshots == {snap \in SetSnapshots : snap.Members = <<>>}

InitAdd ==
    /\ relationers = <<>>
    /\ dirs = {}
    /\ \E D \in SUBSET RelationIds :
          remoteState \in [Life : {"alive"}, Relations : [D -> JoinSnapshots]]
    /\ abort = FALSE
    /\ spc = "idle"
    /\ call = NoCall
    /\ adding = NoAdd
    /\ ret = Return(NoHook, "none")
    /\ RelQuiet

NextAdd ==
    \/ AbortCloses
    \/ WatcherEvent
    \/ NextHookStart
    \/ UpdateKnown
    \/ UpdateSkipNotAlive
    \/ UpdateNew
    \/ AddWatch
    \/ AddPark
    \/ AddAborted
    \/ AddWatcherClosed
    \/ AddChange
    \/ AddJoin
    \/ UpdateAfterAdd
    \/ NextHookReturns
    \/ ReturnToCaller

SpecAdd == InitAdd /\ [][NextAdd]_vars

\* ------------------------------------ add where the join can succeed
\* The abort channel stays open, the unit watcher is started, its channel
\* stays open and goes on delivering changes, and relationer.Join answers
\* transient rejections (MaxAttempts at most) and then succeeds.
WatcherDelivers == WatcherEvent /\ adding'.event = "change"

AddWatchStarts == AddWatch /\ adding'.watcher = "running"

AddJoinAnswers == AddJoin /\ adding'.outcome \in {"yet", "ok"}

\* The steps add takes by itself.
AddRuns == AddWatchStarts \/ AddPark \/ AddChange \/ AddJoinAnswers

NextJoin ==
    \/ WatcherDelivers
    \/ NextHookStart
    \/ UpdateKnown
    \/ UpdateSkipNotAlive
    \/ UpdateNew
    \/ AddWatchStarts
    \/ AddPark
    \/ AddChange
    \/ AddJoinAnswers
    \/ UpdateAfterAdd
    \/ NextHookReturns
    \/ ReturnToCaller

\* add runs whenever it can take a step, and the unit watcher delivers a
\* change whenever add has none to take.
SpecJoin ==
    /\ InitAdd
    /\ [][NextJoin]_vars
    /\ WF_vars(AddRuns)
    /\ WF_vars(WatcherDelivers)

\* ===================================================================== *
\* NewRelations and init: the relation set is built at startup           *
\* ===================================================================== *
\* The state directory of a relation as init may find it: without members,
\* or with the first unit as its member, a change of it pending or not; an
\* implicit relation has run no hook, so its directory holds no member.
KnownDirs(id) ==
    {[state |-> st, implicit |-> FALSE] :
        st \in {d \in DurableStates(id) :
                  \A u \in DOMAIN d.Members : u = NameOf(1) /\ d.Members[u] = 0}}
        \cup {[state |-> EmptyState(id), implicit |-> TRUE]}

\* init (and with it NewRelations) returns an error.
InitError(err) ==
    /\ ret' = Return(NoHook, err)
    /\ spc' = "started"
    /\ call' = [call EXCEPT !.todo = <<>>, !.id = Head(call.todo)]

\* NewRelations up to the first loop of init: the unit, its joined
\* relations and the state directories are read, and any of it may fail.
NewRelations ==
    /\ spc = "new"
    /\ \E joined \in SUBSET RelationIds, ok \in BOOLEAN :
          IF ok
          THEN /\ \E order \in Orders(dirs) :
                     call' = [NoCall EXCEPT !.op = "NewRelations", !.joined = joined,
                                            !.known = dirs, !.todo = order]
               /\ spc' = "known dirs"
               /\ UNCHANGED ret
          ELSE /\ call' = [NoCall EXCEPT !.op = "NewRelations"]
               /\ ret' = Return(NoHook, "error")
               /\ spc' = "started"
    /\ UNCHANGED <<relationers, dirs, remoteState, abort, adding, relVars>>

\* Mutant: the directory of a relation that is no longer joined is kept.
InitKnownDirKeepsOrphan ==
    /\ spc = "known dirs" /\ call.todo # <<>>
    /\ LET id == Head(call.todo) IN
          IF id \in call.joined
          THEN /\ \E dir \in KnownDirs(id) :
                     adding' = [NoAdd EXCEPT !.id = id, !.implicit = dir.implicit,
                                             !.at = "watch", !.state = dir.state]
               /\ spc' = "add"
               /\ UNCHANGED <<dirs, call, ret>>
          ELSE /\ call' = [call EXCEPT !.todo = Tail(@), !.id = id]
               /\ UNCHANGED <<dirs, spc, ret, adding>>
    /\ UNCHANGED <<relationers, remoteState, abort, relVars>>

\* Lines 129-137: the loop over knownDirs.  A directory whose relation is
\* joined is handed to add; any other is removed, which may fail.
InitKnownDir ==
    /\ spc = "known dirs" /\ call.todo # <<>>
    /\ LET id == Head(call.todo) IN
          IF id \in call.joined
          THEN /\ \E dir \in KnownDirs(id) :
                     adding' = [NoAdd EXCEPT !.id = id, !.implicit = dir.implicit,
                                             !.at = "watch", !.state = dir.state]
               /\ spc' = "add"
               /\ UNCHANGED <<dirs, call, ret>>
          ELSE /\ \E removed \in BOOLEAN :
                     IF removed
                     THEN /\ dirs' = RemoveDir(dirs, id)
                          /\ call' = [call EXCEPT !.todo = Tail(@), !.id = id]
                          /\ UNCHANGED <<spc, ret>>
                     ELSE InitError("error") /\ UNCHANGED dirs
               /\ UNCHANGED adding
    /\ UNCHANGED <<relationers, remoteState, abort, relVars>>

\* Line 138: the first loop is through, the loop over joinedRelations
\* starts.
InitKnownDirsDone ==
    /\ spc = "known dirs" /\ call.todo = <<>>
    /\ \E order \in Orders(call.joined) :
          call' = [call EXCEPT !.todo = order]
    /\ spc' = "joined relations"
    /\ UNCHANGED <<relationers, dirs, remoteState, abort, adding, ret, relVars>>

\* Lines 138-149: the loop over joinedRelations.  A relation whose
\* directory was known has been added already; for any other a state
\* directory is read, which may fail, and handed to add.
InitJoined ==
    /\ spc = "joined relations" /\ call.todo # <<>>
    /\ LET id == Head(call.todo) IN
          IF id \in call.known
          THEN /\ call' = [call EXCEPT !.todo = Tail(@), !.id = id]
               /\ UNCHANGED <<dirs, spc, ret, adding>>
          ELSE \E ok \in BOOLEAN :
                  IF ok
                  THEN /\ dirs' = ReadStateDir(dirs, id)
                       /\ \E implicit \in BOOLEAN :
                             adding' = [NoAdd EXCEPT !.id = id, !.implicit = implicit,
                                                     !.at = "watch",
                                                     !.state = EmptyState(id)]
                       /\ spc' = "add"
                       /\ UNCHANGED <<call, ret>>
                  ELSE InitError("error") /\ UNCHANGED <<dirs, adding>>
    /\ UNCHANGED <<relationers, remoteState, abort, relVars>>

\* Lines 131-133 and 146-148: add has returned to init, which returns its
\* error or goes on with the loop it is in.
InitAfterAdd ==
    /\ spc = "added" /\ call.op = "NewRelations"
    /\ adding' = NoAdd
    /\ IF adding.err = "nil"
       THEN /\ call' = [call EXCEPT !.todo = Tail(@), !.id = adding.id]
            /\ spc' = IF adding.id \in call.known THEN "known dirs"
                      ELSE "joined relations"
            /\ UNCHANGED ret
       ELSE InitError(adding.err)
    /\ UNCHANGED <<relationers, dirs, remoteState, abort, relVars>>

\* Line 150 and 101-102: init returns nil and NewRelations the relations.
InitReturns ==
    /\ spc = "joined relations" /\ call.todo = <<>>
    /\ ret' = Return(NoHook, "nil")
    /\ spc' = "started"
    /\ UNCHANGED <<relationers, dirs, remoteState, abort, call, adding, relVars>>

\* The unit agent starts with some state directories left by its last run.
InitNew ==
    /\ relationers = <<>>
    /\ dirs \in SUBSET RelationIds
    /\ remoteState = [Life |-> "alive", Relations |-> <<>>]
    /\ abort = FALSE
    /\ spc = "new"
    /\ call = NoCall
    /\ adding = NoAdd
    /\ ret = Return(NoHook, "none")
    /\ RelQuiet

NextNew ==
    \/ NewRelations
    \/ InitKnownDir
    \/ InitKnownDirsDone
    \/ InitJoined
    \/ InitAfterAdd
    \/ InitReturns
    \/ AbortCloses
    \/ WatcherEvent
    \/ AddWatch
    \/ AddPark
    \/ AddAborted
    \/ AddWatcherClosed
    \/ AddChange
    \/ AddJoin

SpecNew == InitNew /\ [][NextNew]_vars

\* ===================================================================== *
\* The relation set under Name, PrepareHook, CommitHook and GetInfo      *
\* ===================================================================== *
\* The hook.Info values the calls are made with: every relation hook for
\* every relation id (the member hooks for one remote unit), and a hook
\* that is no relation hook.
HookInputs ==
    {HookInfo(kind, id, NameOf(1), v) :
        kind \in {"RelationJoined", "RelationChanged", "RelationDeparted"},
        id \in RelationIds, v \in Versions}
    \cup {HookInfo(kind, id, EmptyName, 0) :
            kind \in {"RelationBroken", "ConfigChanged"}, id \in RelationIds}

\* Mutant: Name answers for a relation id that has no relationer.
NameOfAnyRelation(rs, id) == "nil"

\* relations.Name: the error it returns.
Name(rs, id) ==
    IF id \notin DOMAIN rs THEN "unknown relation" ELSE "nil"

\* Mutant: PrepareHook hands a hook of any kind to the relationer.
PrepareHookAnyKind(rs, hookInfo, prepared) ==
    IF hookInfo.RelationId \notin DOMAIN rs THEN "unknown relation"
    ELSE IF prepared THEN "nil" ELSE "error"

\* relations.PrepareHook: the error it returns; prepared tells whether the
\* relationer's own PrepareHook succeeded.
PrepareHook(rs, hookInfo, prepared) ==
    IF ~IsRelation(hookInfo.Kind) THEN "not a relation hook"
    ELSE IF hookInfo.RelationId \notin DOMAIN rs THEN "unknown relation"
    ELSE IF prepared THEN "nil" ELSE "error"

\* relations.CommitHook: the error it returns.
commitHookError(rs, hookInfo, committed) ==
    IF ~IsRelation(hookInfo.Kind) THEN "not a relation hook"
    ELSE IF hookInfo.RelationId \notin DOMAIN rs THEN "unknown relation"
    ELSE IF committed THEN "nil" ELSE "error"

\* relations.GetInfo: the relation ids of the map it returns.
GetInfo(rs) == DOMAIN rs

\* Name is called.
NameCall ==
    /\ spc = "idle"
    /\ \E id \in RelationIds :
          /\ call' = [NoCall EXCEPT !.op = "Name",
                                    !.arg = HookInfo("", id, EmptyName, 0)]
          /\ ret' = Return(NoHook, Name(relationers, id))
    /\ spc' = "called"
    /\ UNCHANGED <<relationers, dirs, remoteState, abort, adding, relVars>>

\* PrepareHook is called.
PrepareHookCall ==
    /\ spc = "idle"
    /\ \E hookInfo \in HookInputs, prepared \in BOOLEAN :
          /\ call' = [NoCall EXCEPT !.op = "PrepareHook", !.arg = hookInfo]
          /\ ret' = Return(NoHook, PrepareHook(relationers, hookInfo, prepared))
    /\ spc' = "called"
    /\ UNCHANGED <<relationers, dirs, remoteState, abort, adding, relVars>>

\* CommitHook is called; a committed RelationBroken removes the directory.
CommitHookCall ==
    /\ spc = "idle"
    /\ \E hookInfo \in HookInputs, committed \in BOOLEAN :
          /\ call' = [NoCall EXCEPT !.op = "CommitHook", !.arg = hookInfo]
          /\ relationers' = commitHook(relationers, hookInfo, committed)
          /\ dirs' = IF committed /\ hookInfo.Kind = "RelationBroken"
                        /\ hookInfo.RelationId \in DOMAIN relationers
                     THEN RemoveDir(dirs, hookInfo.RelationId)
                     ELSE dirs
          /\ ret' = Return(NoHook, commitHookError(relationers, hookInfo, committed))
    /\ spc' = "called"
    /\ UNCHANGED <<remoteState, abort, adding, relVars>>

\* GetInfo is called.
GetInfoCall ==
    /\ spc = "idle"
    /\ call' = [NoCall EXCEPT !.op = "GetInfo"]
    /\ ret' = [hook |-> NoHook, err |-> "nil", infos |-> GetInfo(relationers)]
    /\ spc' = "called"
    /\ UNCHANGED <<relationers, dirs, remoteState, abort, adding, relVars>>

NextApi ==
    \/ NameCall
    \/ PrepareHookCall
    \/ CommitHookCall
    \/ GetInfoCall
    \/ ReturnToCaller

\* A unit that has just joined some relations: none of the relationers has
\* run a hook yet.
InitApi ==
    /\ \E D \in SUBSET RelationIds :
          \E implicit \in [D -> BOOLEAN] :
             relationers = [id \in D |-> NewRelationer(EmptyState(id), implicit[id])]
    /\ dirs = DOMAIN relationers
    /\ remoteState = [Life |-> "alive", Relations |-> <<>>]
    /\ abort = FALSE
    /\ spc = "idle"
    /\ call = NoCall
    /\ adding = NoAdd
    /\ ret = Return(NoHook, "none")
    /\ RelQuiet

SpecApi == InitApi /\ [][NextApi]_vars

\* ===================================================================== *
\* Properties of Name, PrepareHook, CommitHook and GetInfo               *
\* ===================================================================== *
\* A call of the named operation has just returned.
Called(op) == spc = "called" /\ call.op = op

\* CommitHook of RelationBroken has returned for a relation id that had a
\* relationer when it was called.
BrokenCommitted(id) ==
    /\ Called("CommitHook")
    /\ call.arg = HookInfo("RelationBroken", id, EmptyName, 0)
    /\ ret.err # "unknown relation"

\* A step in which Name, PrepareHook or CommitHook is called for a relation
\* id that has no relationer.
UnknownCallStep ==
    /\ spc = "idle" /\ spc' = "called"
    /\ call'.op \in {"Name", "PrepareHook", "CommitHook"}
    /\ call'.arg.RelationId \notin DOMAIN relationers

BrokenCommitFails ==
    /\ spc = "idle" /\ Called("CommitHook")'
    /\ call'.arg.Kind = "RelationBroken"
    /\ call'.arg.RelationId \in DOMAIN relationers
    /\ ret'.err # "nil"

\* C13: CommitHook removes the relationer for a RelationBroken hook only
\* after the relationer's commit has succeeded: when that commit returns an
\* error, the relationer is still registered afterwards.
C13_RemovedOnlyAfterCommit ==
    [][BrokenCommitFails => call'.arg.RelationId \in DOMAIN relationers']_vars

\* A step in which Name, PrepareHook or CommitHook is called.
CallStep ==
    /\ spc = "idle" /\ spc' = "called"
    /\ call'.op \in {"Name", "PrepareHook", "CommitHook"}

\* C14: PrepareHook and CommitHook return an error for a hook that is no
\* relation hook; Name, PrepareHook and CommitHook return the
\* unknown-relation error for a relation id that has no relationer; and in
\* each of these cases the relationers and their directories are left as
\* they were, also when CommitHook is given RelationBroken for an unknown
\* id.
C14_InvalidInputFails ==
    [][CallStep =>
        LET notRelation == call'.op # "Name" /\ ~IsRelation(call'.arg.Kind)
            unknown == call'.arg.RelationId \notin DOMAIN relationers
        IN  /\ notRelation =>
                  /\ ret'.err = "not a relation hook"
                  /\ relationers' = relationers /\ dirs' = dirs
            /\ (~notRelation /\ unknown) =>
                  /\ ret'.err = "unknown relation"
                  /\ relationers' = relationers /\ dirs' = dirs]_vars

\* CommitHook of RelationBroken has failed for an unknown relation id while
\* another relation has its relationer, which is still there.
C14_Witness ==
    /\ Called("CommitHook")
    /\ call.arg.Kind = "RelationBroken"
    /\ ret.err = "unknown relation"
    /\ relationers # <<>>
    /\ DOMAIN relationers \subseteq dirs

\* ===================================================================== *
\* Properties of NextHook                                                *
\* ===================================================================== *
\* NextHook has returned a hook.
HookReturned == spc = "returned" /\ ret.err = "nil"

\* The unit or the relation of the returned hook is Dying in the snapshot.
ReturnedForDying ==
    /\ HookReturned
    /\ \/ remoteState.Life = "dying"
       \/ remoteState.Relations[ret.hook.RelationId].Life = "dying"

\* The local state the returned hook was computed from.
ReturnedState == relationers[ret.hook.RelationId].State

\* C10 as claimed: when the unit or the relation's snapshot is Dying, the
\* member-level hooks of that relation are skipped and the only hook
\* NextHook returns for it is RelationBroken.
C10_OnlyBrokenWhenDying ==
    ReturnedForDying => ret.hook.Kind = "RelationBroken"

\* C10 amended: when the unit or the relation's snapshot is Dying, NextHook
\* hands nextRelationHook an empty snapshot and remoteBroken, so for that
\* relation RelationJoined is never returned, RelationChanged only as the
\* replay of a pending change (with version 0), RelationDeparted for the
\* smallest local member as long as there is one, and RelationBroken once
\* no local member and no pending change is left, whatever members the
\* snapshot lists.
C10_DyingSkipsJoinsAndChanges ==
    ReturnedForDying =>
        LET st == ReturnedState
            id == ret.hook.RelationId
        IN  ret.hook =
                IF st.ChangedPending # EmptyName
                THEN HookInfo("RelationChanged", id, st.ChangedPending, 0)
                ELSE IF st.Members # <<>>
                THEN HookInfo("RelationDeparted", id, Smallest(DOMAIN st.Members),
                              st.Members[Smallest(DOMAIN st.Members)])
                ELSE HookInfo("RelationBroken", id, EmptyName, 0)

\* RelationBroken is returned for a Dying relation whose snapshot still
\* lists a member that never joined locally.
C10_Witness ==
    /\ HookReturned
    /\ ret.hook.Kind = "RelationBroken"
    /\ remoteState.Life = "alive"
    /\ remoteState.Relations[ret.hook.RelationId].Life = "dying"
    /\ remoteState.Relations[ret.hook.RelationId].Members # <<>>
    /\ relationers[ret.hook.RelationId].dying

\* What is left to do before a Dying relation is torn down: two steps for
\* every local member (its departure), one for a pending change.
TeardownRank(st) ==
    2 * Cardinality(DOMAIN st.Members) + (IF st.ChangedPending # EmptyName THEN 1 ELSE 0)

\* A step that commits the hook NextHook returned for a Dying relation.
DyingCommitStep ==
    /\ ReturnedForDying
    /\ spc' = "idle"
    /\ relationers' # relationers

\* C11: when the unit or the relation's snapshot is Dying, NextHook returns
\* no RelationJoined for that relation whatever members the snapshot lists,
\* and RelationChanged only to replay a pending change; every committed
\* hook of a Dying relation brings its local state nearer to teardown (a
\* pending change or a member less), and a relationer that hooks are
\* returned for leaves the set only when RelationBroken is committed.
C11_DyingLeadsToBroken ==
    /\ [](ReturnedForDying =>
            /\ ret.hook.Kind # "RelationJoined"
            /\ ret.hook.Kind = "RelationChanged" =>
                  ret.hook.RemoteUnit = ReturnedState.ChangedPending)
    /\ [][DyingCommitStep =>
            LET id == ret.hook.RelationId
            IN  IF id \in DOMAIN relationers'
                THEN TeardownRank(relationers'[id].State)
                        < TeardownRank(relationers[id].State)
                ELSE ret.hook.Kind = "RelationBroken"]_vars
    /\ [][\A id \in DOMAIN relationers \ DOMAIN relationers' :
            \/ relationers[id].implicit
            \/ /\ HookReturned
               /\ ret.hook = HookInfo("RelationBroken", id, EmptyName, 0)]_vars

\* The unit is Dying, the relation's snapshot is alive and lists a member
\* that is not known locally: the hook returned is the teardown, not a join.
C11_Witness ==
    /\ HookReturned
    /\ remoteState.Life = "dying"
    /\ remoteState.Relations[ret.hook.RelationId].Life = "alive"
    /\ DOMAIN remoteState.Relations[ret.hook.RelationId].Members
          \ DOMAIN ReturnedState.Members # {}
    /\ ret.hook.Kind = "RelationBroken"

\* ===================================================================== *
\* Properties of add                                                     *
\* ===================================================================== *
\* add has returned to update, which has not looked at the error yet.
AddReturned == spc = "added"

\* The relation id of the add has a relationer.
Registered == adding.id \in DOMAIN relationers

Parked == spc = "add" /\ adding.at = "parked"

\* C16: when the abort channel is closed while add is blocked in the select
\* and no change of the unit has been delivered yet, the next thing add
\* does is to return ErrLoopAborted, having made no attempt to enter the
\* scope and registered no relationer; and whenever the select takes the
\* abort case add returns ErrLoopAborted, not another error.
C16_AbortBeforeTrigger ==
    /\ [][(Parked /\ abort /\ adding.attempts = 0 /\ adding' # adding) =>
            /\ spc' = "added"
            /\ adding'.took = "abort"
            /\ adding'.err = "ErrLoopAborted"
            /\ adding'.attempts = 0
            /\ relationers' = relationers]_vars
    /\ [](AddReturned /\ adding.took = "abort" =>
            /\ adding.err = "ErrLoopAborted"
            /\ adding.attempts = 0 => ~Registered)

\* add has returned ErrLoopAborted with no attempt made and nothing ready
\* on the watcher's channel.
C16_Witness ==
    /\ AddReturned
    /\ abort
    /\ adding.took = "abort"
    /\ adding.event = "none"
    /\ adding.attempts = 0
    /\ adding.err = "ErrLoopAborted"
    /\ ~Registered

\* C17: once the abort channel is closed, add starts no further attempt to
\* enter the scope and registers no relationer, whatever the watcher has
\* ready and whatever Join has just answered.
C17_NoAttemptAfterAbort ==
    [][(spc = "add" /\ abort) =>
        /\ adding'.attempts = adding.attempts
        /\ DOMAIN relationers' = DOMAIN relationers]_vars

\* C18: the unit watcher is stopped exactly once on every way out of add
\* after it was started (success, abort, closed channel, fatal Join error):
\* add never returns with the watcher running, and it returns without a
\* stop only when the watcher could not be started.
C18_WatcherStoppedOnce ==
    /\ adding.stops <= 1
    /\ adding.watcher = "running" => spc = "add"
    /\ AddReturned =>
          /\ adding.watcher = "stopped" <=> adding.stops = 1
          /\ adding.watcher = "none" <=> adding.err = "watch failed"
          /\ adding.took # "" => adding.stops = 1

\* add has returned a fatal Join error and the watcher is stopped.
C18_Witness ==
    /\ AddReturned
    /\ adding.outcome = "error"
    /\ adding.err = "enter scope failed"
    /\ adding.watcher = "stopped"
    /\ adding.stops = 1

\* C19: when the select takes the watcher's closed channel, add returns the
\* error "unit watcher closed" (not ErrLoopAborted), makes no attempt for
\* that wake-up and registers no relationer; an add that is blocked in the
\* select when the channel is closed does nothing else before it returns.
C19_WatcherClosedIsFatal ==
    /\ [](AddReturned /\ adding.took = "closed" =>
            /\ adding.err = "unit watcher closed"
            /\ adding.attempts = adding.rejections
            /\ ~Registered)
    /\ [][(Parked /\ adding.event = "closed" /\ adding' # adding) =>
            /\ spc' = "added"
            /\ adding'.took = "closed"
            /\ adding'.attempts = adding.attempts
            /\ relationers' = relationers]_vars

\* The channel was closed after a transient rejection, while the abort
\* channel was open.
C19_Witness ==
    /\ AddReturned
    /\ ~abort
    /\ adding.took = "closed"
    /\ adding.rejections > 0
    /\ adding.err = "unit watcher closed"

\* C20: when relationer.Join answers an error that is not the transient
\* rejection, add returns that very error in the same step, with no
\* further attempt and no relationer registered.
C20_FatalJoinError ==
    /\ [](AddReturned /\ adding.outcome \in {"cannot", "error"} =>
            /\ adding.err = IF adding.outcome = "cannot" THEN "ErrCannotEnterScope"
                            ELSE "enter scope failed"
            /\ adding.attempts = adding.rejections + 1
            /\ ~Registered)
    /\ [][(spc = "add" /\ adding.at = "join"
             /\ adding'.outcome \in {"cannot", "error"}) =>
            /\ spc' = "added"
            /\ relationers' = relationers]_vars

\* The permanent rejection came on the second attempt, with a change of
\* the unit ready for a third.
C20_Witness ==
    /\ AddReturned
    /\ adding.outcome = "cannot"
    /\ adding.err = "ErrCannotEnterScope"
    /\ adding.rejections > 0
    /\ adding.event = "change"
    /\ ~Registered

\* ===================================================================== *
\* Properties of update                                                  *
\* ===================================================================== *
\* add has returned the permanent "cannot enter scope" error to update.
AddCannotEnterScope == AddReturned /\ adding.err = "ErrCannotEnterScope"

C22_NoPartialRelationer ==
    /\ [](AddReturned /\ adding.err # "nil" => ~Registered)
    /\ [][\A id \in dirs \ dirs' : id \notin DOMAIN relationers']_vars

\* update is about to look at a relation id that has a relationer and
\* whose snapshot is Dying.
UpdateKnownDying ==
    /\ spc = "update" /\ call.todo # <<>>
    /\ Head(call.todo) \in DOMAIN relationers
    /\ remoteState.Relations[Head(call.todo)].Life = "dying"

\* C23: update on a registered relation whose snapshot is Dying calls
\* SetDying on its relationer (update returns the error if that fails);
\* an implicit relationer is then removed from the set at once, and no
\* hook is ever returned for an implicit relationer; a relationer that is
\* not implicit is kept, set dying, and leaves the set only in the step in
\* which its RelationBroken hook is committed, that is when the commit has
\* succeeded and the state directory is removed with it.
C23_SetDyingOnKnownRelation ==
    /\ [][UpdateKnownDying =>
            LET id == Head(call.todo) IN
            \/ /\ spc' = "returned" /\ ret'.err = "error"
               /\ relationers' = relationers
            \/ /\ spc' = "update" /\ call'.did = "SetDying"
               /\ IF relationers[id].implicit
                  THEN relationers' = MapDelete(relationers, id)
                  ELSE relationers' = [relationers EXCEPT ![id].dying = TRUE]]_vars
    /\ [](HookReturned => ~relationers[ret.hook.RelationId].implicit)
    /\ [][\A id \in DOMAIN relationers \ DOMAIN relationers' :
            ~relationers[id].implicit =>
                /\ spc = "returned"
                /\ ret = Return(HookInfo("RelationBroken", id, EmptyName, 0), "nil")
                /\ id \notin dirs']_vars

\* update is about to look at a relation id that has no relationer.
UpdateUnknown ==
    /\ spc = "update" /\ call.todo # <<>>
    /\ Head(call.todo) \notin DOMAIN relationers

\* C24: update passes over a relation id that has no relationer and whose
\* snapshot is not Alive: the relation is not looked up, no state
\* directory is read or created, no add is started, no relationer is
\* registered, and update goes on with the remaining ids; a unit that
\* starts with nothing thus has directories and relationers only for
\* relations its snapshot shows Alive.
C24_NotAliveSkipped ==
    /\ [][(UpdateUnknown /\ remoteState.Relations[Head(call.todo)].Life # "alive") =>
            /\ call'.did = "not alive"
            /\ call'.todo = Tail(call.todo)
            /\ spc' = "update"
            /\ dirs' = dirs
            /\ adding' = NoAdd
            /\ relationers' = relationers
            /\ ret' = ret]_vars
    /\ [](\A id \in (dirs \cup DOMAIN relationers \cup {adding.id}) \ {0} :
            remoteState.Relations[id].Life = "alive")

\* update has passed over a relation that is not alive and has added the
\* next one since.
C24_Witness ==
    /\ spc = "added"
    /\ adding.err = "nil"
    /\ Registered
    /\ call.did = "not alive"
    /\ call.id \in DOMAIN remoteState.Relations \ {adding.id}
    /\ remoteState.Relations[call.id].Life = "dying"
    /\ call.id \notin dirs
    /\ call.id \notin DOMAIN relationers

\* update has found the endpoint of the relation id it looked at last
\* not implemented by the charm.
NotImplemented == call.op = "NextHook" /\ call.did = "notimplemented"

\* C25: when update finds that the endpoint of a newly seen Alive relation
\* is not implemented by the unit's charm it returns no error: it reads
\* or creates no state directory, starts no add, registers no relationer
\* and goes on with the remaining relation ids.
C25_UnimplementedEndpointSkipped ==
    /\ [][(UpdateUnknown /\ call' # call /\ call'.did = "notimplemented") =>
            /\ remoteState.Relations[Head(call.todo)].Life = "alive"
            /\ call'.id = Head(call.todo)
            /\ call'.todo = Tail(call.todo)
            /\ spc' = "update"
            /\ dirs' = dirs
            /\ adding' = NoAdd
            /\ relationers' = relationers
            /\ ret' = ret]_vars
    /\ [](NotImplemented =>
            /\ call.id \notin DOMAIN relationers
            /\ adding.id # call.id
            /\ spc = "returned" => ret.err \in {"nil", "ErrNoOperation"})

\* update has passed over a relation whose endpoint is not implemented
\* and has added the next one since.
C25_Witness ==
    /\ spc = "added"
    /\ adding.err = "nil"
    /\ Registered
    /\ NotImplemented
    /\ call.id \in DOMAIN remoteState.Relations \ {adding.id}
    /\ remoteState.Relations[call.id].Life = "alive"
    /\ call.id \notin dirs
    /\ call.id \notin DOMAIN relationers

\* update is about to look at a relation id that has a relationer.
UpdateRegistered ==
    /\ spc = "update" /\ call.todo # <<>>
    /\ Head(call.todo) \in DOMAIN relationers

ReturnedNotContinue ==
    /\ spc = "returned"
    /\ call.op = "NextHook"
    /\ call.Kind \notin {"", "Continue"}

\* Some relation has a hook to run: NextHook would return it if
\* localState.Kind were Continue.
OutstandingHook ==
    \E order \in Orders(DOMAIN remoteState.Relations) :
       \E r \in firstHooks(relationers, remoteState, order) : r.err = "nil"

\* C27: NextHook starts with update, which ranges over every relation id
\* of the snapshot, and looks at localState.Kind only when update has
\* returned nil (an error of update is returned as it is); when
\* localState.Kind is not Continue NextHook then returns ErrNoOperation
\* with an empty hook.Info, whatever the snapshot and whatever hooks the
\* relations have outstanding, and what update did to the relationers and
\* the state directories stays done.
C27_NotContinueIsNoOperation ==
    /\ [](ReturnedNotContinue => ret = Return(NoHook, "ErrNoOperation"))
    /\ [](spc = "returned" /\ call.Kind = "" =>
            ret.hook = NoHook /\ ret.err \notin {"nil", "none", "ErrNoOperation"})
    /\ [][(spc = "idle" /\ spc' # "idle") =>
            /\ spc' = "update"
            /\ call'.op = "NextHook" /\ call'.Kind = ""
            /\ {call'.todo[i] : i \in DOMAIN call'.todo} = DOMAIN remoteState.Relations
            /\ Len(call'.todo) = Cardinality(DOMAIN remoteState.Relations)]_vars
    /\ [][call'.Kind \notin {"", call.Kind} =>
            /\ spc = "update" /\ call.todo = <<>>
            /\ spc' = "returned"
            /\ relationers' = relationers
            /\ dirs' = dirs]_vars

\* NextHook has returned ErrNoOperation because localState.Kind is not
\* Continue, in a call in which update has added a relation, and the
\* relation set has a hook to run.
C27_Witness ==
    /\ ReturnedNotContinue
    /\ ret.err = "ErrNoOperation"
    /\ call.did = "add"
    /\ call.id \in DOMAIN relationers
    /\ call.id \in dirs
    /\ OutstandingHook

\* ===================================================================== *
\* Properties of NewRelations                                            *
\* ===================================================================== *
\* NewRelations has returned the relations and no error.
Started == spc = "started" /\ ret.err = "nil"

\* C28: when NewRelations returns without error the relationers are
\* those of the relations the unit has joined, each with the state its
\* directory held (an empty one if the directory was missing); every state
\* directory found whose relation is not joined has been removed, and every
\* joined relation has a state directory.  While init runs, a directory is
\* removed only if its relation is not joined.
C28_StartupReconciliation ==
    /\ [](Started =>
            /\ DOMAIN relationers = call.joined
            /\ dirs = call.joined
            /\ (call.known \ call.joined) \cap dirs = {}
            /\ relationers \in StartRelationers
            /\ \A id \in call.joined \ call.known :
                  relationers[id].State = EmptyState(id)
            /\ adding = NoAdd)
    /\ [][\A id \in dirs \ dirs' : id \in call.known \ call.joined]_vars

\* NewRelations has returned without error: it has kept the directory of
\* one joined relation, with a member in it, removed the directory of a
\* relation that is not joined, and created none.
C28_Witness ==
    /\ Started
    /\ \E id \in call.joined, orphan \in call.known \ call.joined :
          /\ id \in call.known
          /\ id \in dirs
          /\ relationers[id].State.Members # <<>>
          /\ orphan \notin dirs
          /\ orphan \notin DOMAIN relationers

\* ===================================================================== *
\* One add at a time                                                     *
\* ===================================================================== *
\* An add is in progress, or has returned to an update that has not gone
\* on yet.
InAdd == spc \in {"add", "added"}

\* C29: an add is in progress only inside update, for the relation id
\* update is at, and a new add starts only when none is in progress; while
\* it is in progress update stays at that id, NextHook returns nothing and
\* no state directory changes, and the relationers change only by this
\* add registering its own relation id in the step in which it returns;
\* the relationers never change outside a step of update or add.
C29_OneJoinAtATime ==
    /\ [](InAdd <=> adding # NoAdd)
    /\ [](InAdd =>
            /\ call.op = "NextHook"
            /\ call.todo # <<>>
            /\ Head(call.todo) = adding.id
            /\ call.Kind = ""
            /\ ret = Return(NoHook, "none"))
    /\ [][spc = "add" =>
            /\ call' = call
            /\ ret' = ret
            /\ dirs' = dirs
            /\ adding'.id = adding.id
            /\ spc' \in {"add", "added"}
            /\ relationers' # relationers =>
                  /\ adding.at = "join"
                  /\ spc' = "added"
                  /\ DOMAIN relationers' = DOMAIN relationers \cup {adding.id}
                  /\ \A id \in DOMAIN relationers : relationers'[id] = relationers[id]]_vars
    /\ [][adding'.id \notin {0, adding.id} => spc = "update" /\ adding = NoAdd]_vars
    /\ [][relationers' # relationers => spc \in {"update", "add"}]_vars

\* A second add of the same update is blocked in its select; the first
\* has returned and its relationer is registered.
C29_Witness ==
    /\ Parked
    /\ call.did = "add"
    /\ call.id # adding.id
    /\ call.id \in DOMAIN relationers
    /\ call.todo = <<adding.id>>
    /\ ~Registered

\* ===================================================================== *
\* The pending change under repeated call and commit                     *
\* ===================================================================== *
\* ChangedPending is empty or names a local member.
PendingValid == local.ChangedPending \in DOMAIN local.Members \cup {EmptyName}

\* C30: from a local state whose ChangedPending is empty or names a key
\* of Members, committing again and again the hook nextRelationHook
\* returns keeps ChangedPending empty or naming a key of Members; while a
\* change is pending the hook returned is the RelationChanged of the
\* pending unit, so no RelationDeparted is returned before the pending
\* change is committed, and the commit of a hook never sets a pending
\* change.
C30_ChangedPendingValid ==
    /\ [](PendingValid)
    /\ [](pc = "commit" /\ local.ChangedPending # EmptyName =>
            /\ result.hook.Kind = "RelationChanged"
            /\ result.hook.RemoteUnit = local.ChangedPending)
    /\ [](pc = "commit" /\ result.hook.Kind = "RelationDeparted" =>
            local.ChangedPending = EmptyName)
    /\ [][local'.ChangedPending \in {local.ChangedPending, EmptyName}]_vars

\* The pending unit has left the remote snapshot: its change was replayed
\* and committed first, and RelationDeparted is returned for it now.
C30_Witness ==
    /\ pc = "commit"
    /\ initial.ChangedPending # EmptyName
    /\ initial.ChangedPending \notin DOMAIN remote.Members
    /\ Len(emitted) = 2
    /\ emitted[1].Kind = "RelationChanged"
    /\ emitted[1].RemoteUnit = initial.ChangedPending
    /\ result.hook.Kind = "RelationDeparted"
    /\ result.hook.RemoteUnit = initial.ChangedPending
    /\ local.ChangedPending = EmptyName
    /\ initial.ChangedPending \in DOMAIN local.Members

\* ===================================================================== *
\* The hooks NextHook returns                                            *
\* ===================================================================== *
\* C31: a hook returned by NextHook carries the id of a relation of
\* remoteState.Relations that has a relationer which is not implicit; it is
\* a relation hook, and nothing NextHook returns beside a hook carries a
\* hook.Info.
C31_HooksOnlyForRegistered ==
    /\ HookReturned =>
          /\ IsRelation(ret.hook.Kind)
          /\ ret.hook.RelationId \in DOMAIN remoteState.Relations
          /\ ret.hook.RelationId \in DOMAIN relationers
          /\ ~relationers[ret.hook.RelationId].implicit
    /\ (spc = "returned" /\ ret.err # "nil") => ret.hook = NoHook

\* NextHook has returned a hook for one relation while the other, whose
\* relationer is implicit, has a remote member its state does not know.
C31_Witness ==
    /\ HookReturned
    /\ \E id \in DOMAIN relationers \ {ret.hook.RelationId} :
          /\ relationers[id].implicit
          /\ id \in DOMAIN remoteState.Relations
          /\ remoteState.Life = "alive"
          /\ remoteState.Relations[id].Life = "alive"
          /\ remoteState.Relations[id].Members # <<>>

\* The relations NextHook asks for a hook.
Asked ==
    {id \in DOMAIN remoteState.Relations \cap DOMAIN relationers :
        ~relationers[id].implicit}

\* What nextRelationHook may answer for an asked relation.
Answers(id) == relationHooks(relationers[id], remoteState.Relations[id], remoteState.Life)

\* NextHook has returned after update returned nil and localState.Kind
\* was found to be Continue.
ReturnedContinue ==
    /\ spc = "returned"
    /\ call.op = "NextHook"
    /\ call.Kind = "Continue"

\* C32: when update has returned nil and localState.Kind is Continue,
\* NextHook returns ErrNoOperation exactly when nextRelationHook answers
\* ErrNoOperation for every relation of the snapshot that has a relationer
\* which is not implicit; otherwise it returns, without error, a hook that
\* nextRelationHook answers for one of them, whatever the order in which
\* the relations are ranged over.
C32_NoMaskedWork ==
    ReturnedContinue =>
        /\ ret.err \in {"nil", "ErrNoOperation"}
        /\ ret.err = "ErrNoOperation" <=>
              \A id \in Asked : \A r \in Answers(id) : r.err = "ErrNoOperation"
        /\ ret.err = "nil" => \E id \in Asked : ret \in Answers(id)

\* NextHook has returned the hook of one relation while the other, asked
\* as well, has nothing to do.
C32_Witness ==
    /\ ReturnedContinue
    /\ ret.err = "nil"
    /\ \E other \in Asked \ {ret.hook.RelationId} :
          \A r \in Answers(other) : r.err = "ErrNoOperation"

AtSelect == spc = "add" /\ adding.at \in {"select", "parked"}

\* C34: add calls relationer.Join only in the step in which its select
\* receives a change from the unit watcher, once for every change received;
\* a change once received is gone from the channel; with nothing on the
\* channel (before the first change, or after a transient rejection) add
\* makes no attempt, and a closed channel counts for none.  So the
\* attempts are never more than one ahead of the rejections, and a
\* relationer.Join is in progress exactly when they are.
C34_AttemptsDrivenByEvents ==
    /\ [][adding'.attempts # adding.attempts =>
            \/ /\ AtSelect
               /\ adding.event = "change"
               /\ adding'.event = "none"
               /\ adding'.took = "change"
               /\ adding'.at = "join"
               /\ adding'.attempts = adding.attempts + 1
            \/ adding' = NoAdd
            \/ adding = NoAdd /\ adding'.attempts = 0]_vars
    /\ [][(AtSelect /\ adding.event = "change" /\ adding'.event # "change") =>
            \/ adding'.attempts = adding.attempts + 1 /\ adding'.at = "join"
            \/ spc' = "added" /\ adding'.took = "abort"]_vars
    /\ [][(AtSelect /\ adding.event # "change") =>
            adding'.attempts = adding.attempts \/ adding' = NoAdd]_vars
    /\ [](spc = "add" =>
            /\ adding.attempts >= adding.rejections
            /\ adding.attempts <= adding.rejections + 1
            /\ adding.attempts = adding.rejections + 1 <=> adding.at = "join")

\* After a transient rejection add is blocked in its select with nothing
\* on the watcher's channel: one attempt made, none under way.
C34_Witness ==
    /\ Parked
    /\ adding.event = "none"
    /\ adding.outcome = "yet"
    /\ adding.rejections = 1
    /\ adding.attempts = 1
    /\ ~abort

\* ===================================================================== *
\* The pending change of a unit the snapshot does not list               *
\* ===================================================================== *
\* The run started with a change pending for a unit that is no member of
\* the remote snapshot.
PendingMissing ==
    /\ initial.ChangedPending # EmptyName
    /\ initial.ChangedPending \notin DOMAIN remote.Members

\* The replayed change of the pending unit, as the first call returns it.
ReplayedChange ==
    HookInfo("RelationChanged", initial.RelationId, initial.ChangedPending, 0)

\* The second call of the run has returned.
SecondReturned == calls = 2 /\ Returned

\* C35 (as claimed): when ChangedPending names a unit that is no key of
\* remote.Members the first call returns RelationChanged for it with
\* ChangeVersion 0, and once that is committed the next call returns
\* RelationDeparted for the same unit if it is a local member.
C35_ReplayThenDepartSameUnit ==
    PendingMissing =>
        /\ Len(emitted) >= 1 => emitted[1] = ReplayedChange
        /\ (SecondReturned /\ initial.ChangedPending \in DOMAIN initial.Members) =>
              /\ result.err = "nil"
              /\ result.hook.Kind = "RelationDeparted"
              /\ result.hook.RemoteUnit = initial.ChangedPending

\* C35 (amended): when ChangedPending names a unit that is no key of
\* remote.Members the first call returns RelationChanged for it with
\* ChangeVersion 0, whatever remoteBroken and whatever else is due, and
\* no error; once that is committed the change is no longer pending, and if
\* the unit is a local member the next call returns RelationDeparted for
\* the smallest local member the snapshot does not list: the same unit
\* unless a local member of a smaller name is missing too, and then the
\* unit is departed in a later call, before the run ends.
C35_ReplayThenDepartSmallest ==
    PendingMissing =>
        /\ calls >= 1 =>
              /\ Len(emitted) >= 1
              /\ emitted[1] = ReplayedChange
        /\ (calls = 1 /\ pc = "next") =>
              /\ local.ChangedPending = EmptyName
              /\ MembersGet(local.Members, initial.ChangedPending) = 0
        /\ (SecondReturned /\ initial.ChangedPending \in DOMAIN initial.Members) =>
              /\ result.err = "nil"
              /\ result.hook.Kind = "RelationDeparted"
              /\ result.hook.RemoteUnit = Smallest(DepartedUnits(local))
              /\ DepartedUnits(local) = {initial.ChangedPending}
                    => result.hook = HookInfo("RelationDeparted", initial.RelationId,
                                              initial.ChangedPending, 0)
        /\ (pc = "done" /\ initial.ChangedPending \in DOMAIN initial.Members) =>
              \E i \in DOMAIN emitted :
                 /\ i > 1
                 /\ emitted[i].Kind = "RelationDeparted"
                 /\ emitted[i].RemoteUnit = initial.ChangedPending

\* The relation is being broken and the pending unit, a local member with
\* a version of its own, is not in the snapshot: its change was replayed with
\* version 0 and committed, and the second call returns its departure.
C35_Witness ==
    /\ PendingMissing
    /\ remoteBroken
    /\ SecondReturned
    /\ initial.ChangedPending \in DOMAIN initial.Members
    /\ initial.Members[initial.ChangedPending] # 0
    /\ emitted[1] = ReplayedChange
    /\ result.hook = HookInfo("RelationDeparted", initial.RelationId,
                               initial.ChangedPending, 0)

\* ===================================================================== *
\* A relation whose RelationBroken has been committed                    *
\* ===================================================================== *
\* The relation set as under SpecSet, with a record kept in emitted: the
\* RelationBroken hooks that were committed, each for as long as no call of
\* NextHook has been handed an Alive snapshot of its relation since.
SeenAlive(id) ==
    /\ id \in DOMAIN remoteState.Relations
    /\ remoteState.Relations[id].Life = "alive"

NotSeenAlive(hookInfo) == ~SeenAlive(hookInfo.RelationId)

\* NextHook is called: the record forgets the relations this call sees
\* alive.
NextHookSees ==
    /\ spc = "idle" /\ ~abort
    /\ \E order \in Orders(DOMAIN remoteState.Relations) :
          call' = [NoCall EXCEPT !.op = "NextHook", !.todo = order]
    /\ spc' = "update"
    /\ ret' = Return(NoHook, "none")
    /\ emitted' = SelectSeq(emitted, NotSeenAlive)
    /\ UNCHANGED <<relationers, dirs, remoteState, abort, adding>>
    /\ UNCHANGED <<local, remote, remoteBroken, result, pc, calls, initial>>

\* CommitHook of a hook other than RelationBroken.
CommitOther == CommitHook /\ ret.hook.Kind # "RelationBroken"

\* CommitHook(RelationBroken): the relationer is deleted, then its own
\* CommitHook runs; the hook is put on record.
CommitBroken ==
    /\ spc = "returned" /\ ret.err = "nil"
    /\ ret.hook.Kind = "RelationBroken"
    /\ \E committed \in BOOLEAN :
          /\ relationers' = commitHook(relationers, ret.hook, committed)
          /\ dirs' = IF committed /\ ret.hook.RelationId \in DOMAIN relationers
                     THEN RemoveDir(dirs, ret.hook.RelationId)
                     ELSE dirs
    /\ spc' = "idle"
    /\ call' = NoCall
    /\ ret' = Return(NoHook, "none")
    /\ emitted' = Append(emitted, ret.hook)
    /\ UNCHANGED <<remoteState, abort, adding>>
    /\ UNCHANGED <<local, remote, remoteBroken, result, pc, calls, initial>>

NextBroken ==
    \/ RemoteRelationChanges
    \/ RemoteRelationRemoved
    \/ RemoteUnitLife
    \/ AbortCloses
    \/ WatcherEvent
    \/ NextHookSees
    \/ UpdateKnown
    \/ UpdateSkipNotAlive
    \/ UpdateNew
    \/ AddWatch
    \/ AddPark
    \/ AddAborted
    \/ AddWatcherClosed
    \/ AddChange
    \/ AddJoin
    \/ UpdateAfterAdd
    \/ NextHookReturns
    \/ CommitOther
    \/ CommitBroken
    \/ ReturnToCaller

SpecBroken == InitSet /\ [][NextBroken]_vars

\* The relations with a RelationBroken on record.
Broken == {emitted[i].RelationId : i \in DOMAIN emitted}

\* nextRelationHook, asked on its own about a relation whose teardown
\* was committed and which is still being broken.
AfterTeardown(id) ==
    nextRelationHook(EmptyState(id), EmptySnapshot, TRUE, <<>>)

\* C36: after CommitHook(RelationBroken) for a relation id, and for as
\* long as no NextHook call is handed an Alive snapshot of that relation,
\* the id has no relationer, no add is under way for it, no NextHook call
\* returns a hook for it and no step creates a state directory for it;
\* nextRelationHook on its own would still answer RelationBroken.
C36_BrokenIsFinal ==
    /\ [](\A id \in Broken :
            /\ id \notin DOMAIN relationers
            /\ ~(spc = "add" /\ adding.id = id)
            /\ ~(ret.err = "nil" /\ ret.hook.RelationId = id)
            /\ AfterTeardown(id) = Return(brokenHook(EmptyState(id)), "nil"))
    /\ [][\A id \in Broken \cap Broken' :
            /\ id \in dirs' => id \in dirs
            /\ id \notin DOMAIN relationers']_vars

\* The teardown of a relation was committed, its snapshot is still Dying,
\* and a later NextHook call has passed it over in update and returned
\* without a hook for it.
C36_Witness ==
    /\ spc = "returned"
    /\ call.op = "NextHook"
    /\ call.Kind = "Continue"
    /\ \E id \in Broken :
          /\ id \in DOMAIN remoteState.Relations
          /\ remoteState.Relations[id].Life = "dying"
          /\ call.id = id
          /\ call.did = "not alive"
          /\ id \notin dirs
          /\ ret.hook.RelationId # id

\* ===================================================================== *
\* The state directory after a failed add                                *
\* ===================================================================== *
\* add has returned an error, and update is about to go on.
AddFailed == AddReturned /\ adding.err # "nil"

\* C37: in update dir.Remove() is called after every failed add, whatever
\* the error, and no relationer is registered; when add failed with an
\* error other than "cannot enter scope", update returns that error, be
\* the directory removed or not, and the remaining relation ids of the
\* snapshot are not processed.
C37_RemovalAttemptedAddErrorWins ==
    /\ [][AddFailed =>
            /\ call'.id = adding.id
            /\ call'.did \in {"add failed", "remove failed"}
            /\ call'.did = "add failed" => dirs' = dirs \ {adding.id}
            /\ call'.did = "remove failed" => dirs' = dirs /\ adding.id \in dirs'
            /\ relationers' = relationers
            /\ adding.err # "ErrCannotEnterScope" =>
                  /\ spc' = "returned"
                  /\ ret' = Return(NoHook, adding.err)
                  /\ call'.todo = <<>>]_vars
    /\ [][spc = "returned" => relationers' = relationers /\ dirs' = dirs]_vars

\* add was aborted, the removal of its state directory failed, and update
\* has returned the abort, not the removal's error, with another alive
\* relation of the snapshot left without relationer.
C37_Witness ==
    /\ spc = "returned"
    /\ call.did = "remove failed"
    /\ ret = Return(NoHook, "ErrLoopAborted")
    /\ call.id \in dirs
    /\ call.id \notin DOMAIN relationers
    /\ \E id \in DOMAIN remoteState.Relations \ {call.id} :
          /\ remoteState.Relations[id].Life = "alive"
          /\ id \notin DOMAIN relationers
          /\ id \notin dirs

\* ===================================================================== *
\* relationsResolver.NextOp                                              *
\* ===================================================================== *
\* NextOp calls NextHook (NextHookStart up to NextHookReturns) and hands
\* the hook to the operation factory.  emitted holds the hooks
\* opFactory.NewRunHook was called with in the current NextOp, and result
\* what NextOp returns: the hook of the operation and the error.

\* Mutant: the factory is asked for an operation whatever NextHook
\* returned.
NextOpReturnsAsksAnyway ==
    /\ spc = "returned"
    /\ \E made \in BOOLEAN :
          /\ emitted' = Append(emitted, ret.hook)
          /\ result' = IF ret.err # "nil" THEN Return(NoHook, ret.err)
                       ELSE IF made THEN Return(ret.hook, "nil")
                       ELSE Return(NoHook, "error")
    /\ spc' = "op"
    /\ UNCHANGED <<relationers, dirs, remoteState, abort, call, adding, ret>>
    /\ UNCHANGED <<local, remote, remoteBroken, pc, calls, initial>>

\* Lines 68-72: NextHook has returned; its error is returned, or the hook
\* goes to opFactory.NewRunHook, which may fail.
NextOpReturns ==
    /\ spc = "returned"
    /\ IF ret.err # "nil"
       THEN /\ result' = Return(NoHook, ret.err)
            /\ UNCHANGED emitted
       ELSE \E made \in BOOLEAN :
               /\ emitted' = Append(emitted, ret.hook)
               /\ result' = IF made THEN Return(ret.hook, "nil")
                            ELSE Return(NoHook, "error")
    /\ spc' = "op"
    /\ UNCHANGED <<relationers, dirs, remoteState, abort, call, adding, ret>>
    /\ UNCHANGED <<local, remote, remoteBroken, pc, calls, initial>>

\* The caller of NextOp has what it returned, and is through with it.
OpDone ==
    /\ spc' = "idle"
    /\ call' = NoCall
    /\ ret' = Return(NoHook, "none")
    /\ result' = Return(NoHook, "none")
    /\ emitted' = <<>>
    /\ UNCHANGED <<remoteState, abort, adding>>
    /\ UNCHANGED <<local, remote, remoteBroken, pc, calls, initial>>

\* The operation NextOp returned has run its hook and commits it.
OpCommits ==
    /\ spc = "op" /\ result.err = "nil"
    /\ \E committed \in BOOLEAN :
          /\ relationers' = commitHook(relationers, result.hook, committed)
          /\ dirs' = IF committed /\ result.hook.Kind = "RelationBroken"
                        /\ result.hook.RelationId \in DOMAIN relationers
                     THEN RemoveDir(dirs, result.hook.RelationId)
                     ELSE dirs
    /\ OpDone

\* The caller goes on without committing anything: NextOp returned an
\* error, or the operation did not get as far as its commit.
OpDropped ==
    /\ spc = "op"
    /\ UNCHANGED <<relationers, dirs>>
    /\ OpDone

NextOp ==
    \/ RemoteRelationChanges
    \/ RemoteRelationRemoved
    \/ RemoteUnitLife
    \/ AbortCloses
    \/ WatcherEvent
    \/ NextHookStart
    \/ UpdateKnown
    \/ UpdateSkipNotAlive
    \/ UpdateNew
    \/ AddWatch
    \/ AddPark
    \/ AddAborted
    \/ AddWatcherClosed
    \/ AddChange
    \/ AddJoin
    \/ UpdateAfterAdd
    \/ NextHookReturns
    \/ NextOpReturns
    \/ OpCommits
    \/ OpDropped

SpecOp == InitSet /\ [][NextOp]_vars

\* NextOp has returned to its caller.
OpReturned == spc = "op"

\* C38: when NextHook succeeds NextOp asks the operation factory for a
\* run-hook operation exactly once, with the hook NextHook returned, and
\* returns the operation of that hook or the factory's error; when
\* NextHook returns an error (ErrNoOperation or an error of update) NextOp
\* returns that error and the factory is not asked.  The factory is not
\* asked before NextHook has returned, and once it has returned NextOp
\* returns without another reconciliation pass.
C38_FactoryAskedOncePerHook ==
    /\ [](/\ ~OpReturned => emitted = <<>>
          /\ (OpReturned /\ ret.err = "nil") =>
                /\ emitted = <<ret.hook>>
                /\ IsRelation(ret.hook.Kind)
                /\ result \in {Return(ret.hook, "nil"), Return(NoHook, "error")}
          /\ (OpReturned /\ ret.err # "nil") =>
                /\ emitted = <<>>
                /\ result = Return(NoHook, ret.err)
                /\ ret.hook = NoHook
          /\ OpReturned => call.op = "NextHook" /\ call.todo = <<>>)
    /\ [][spc = "returned" =>
            /\ spc' = "op"
            /\ relationers' = relationers
            /\ dirs' = dirs
            /\ call' = call
            /\ ret' = ret]_vars

\* NextHook returned RelationJoined; the factory was asked once, with that
\* hook, and NextOp has returned its operation.
C38_Witness ==
    /\ OpReturned
    /\ ret.err = "nil"
    /\ ret.hook.Kind = "RelationJoined"
    /\ emitted = <<ret.hook>>
    /\ result = Return(ret.hook, "nil")

\* ===================================================================== *
\* EntityWatcher                                                         *
\* ===================================================================== *
\* One EntityWatcher w, from newEntityWatcher to the return of Stop.
\*   local   the client side: w.tomb (alive, dying or dead, and its
\*           reason), w.wg, w.out (open or closed), the notifications sent
\*           on w.out, and the last answer to a "Next" call
\*   remote  the server side: the watcher, and the "Next" and "Stop"
\*           requests in flight or answered
\*   pc      the position of the watcher's goroutine (loop and the
\*           deferred calls), of the goroutine that sends "Stop", and of
\*           the caller of Stop
\*   result  what Stop returned
MaxSent == 2

NewWatcher ==
    [tomb |-> "alive", reason |-> "nil", wg |-> 0, out |-> "open", sent |-> 0,
     next |-> "none"]

NoServer == [watcher |-> "none", next |-> "none", stop |-> "none"]

watcherQuiet == <<remoteBroken, calls, emitted, initial, setVars>>

\* newEntityWatcher: w is made and its goroutine started.
InitWatcher ==
    /\ local = NewWatcher
    /\ remote = NoServer
    /\ pc = [loop |-> "Watch", stopper |-> "none", caller |-> "idle"]
    /\ result = Return(NoHook, "none")
    /\ remoteBroken = FALSE
    /\ calls = 0
    /\ emitted = <<>>
    /\ initial = EmptyState(0)
    /\ SetQuiet

\* tomb.Kill(reason): the first reason that is not nil is kept, ErrDying
\* stands for the reason the tomb is dying of already, and the tomb is
\* dying from now on.
Kill(w, reason) ==
    IF reason = "ErrDying" THEN w
    ELSE [w EXCEPT !.reason = IF @ = "nil" THEN reason ELSE @,
                   !.tomb = IF @ = "alive" THEN "dying" ELSE @]

\* loop returns err to w.tomb.Kill, and the deferred w.wg.Wait is next.
LoopReturns(w, err) ==
    /\ local' = Kill(w, err)
    /\ pc' = [pc EXCEPT !.loop = "Wait"]

\* The first call of loop: "Watch" makes the watcher on the server, or
\* fails.
LoopWatch ==
    /\ pc.loop = "Watch"
    /\ \E ok \in BOOLEAN :
          IF ok THEN /\ remote' = [remote EXCEPT !.watcher = "live"]
                     /\ pc' = [pc EXCEPT !.loop = "Add"]
                     /\ UNCHANGED local
          ELSE LoopReturns(local, "error") /\ UNCHANGED remote
    /\ UNCHANGED <<result, watcherQuiet>>

\* w.wg.Add(1) and the start of the goroutine that waits for Dying.
LoopStartsStopper ==
    /\ pc.loop = "Add"
    /\ local' = [local EXCEPT !.wg = 1]
    /\ pc' = [pc EXCEPT !.loop = "select", !.stopper = "Dying"]
    /\ UNCHANGED <<remote, result, watcherQuiet>>

\* select, case <-w.tomb.Dying().
LoopSelectDying ==
    /\ pc.loop = "select"
    /\ local.tomb # "alive"
    /\ LoopReturns(local, "ErrDying")
    /\ UNCHANGED <<remote, result, watcherQuiet>>

\* select, case w.out <- struct{}{}: a receiver takes the notification,
\* and "Next" is called.
LoopSelectSend ==
    /\ pc.loop = "select"
    /\ local.sent < MaxSent
    /\ local' = [local EXCEPT !.sent = @ + 1]
    /\ remote' = [remote EXCEPT !.next = "outstanding"]
    /\ pc' = [pc EXCEPT !.loop = "Next"]
    /\ UNCHANGED <<result, watcherQuiet>>

\* callWatch("Next") returns: on a change the loop goes round, CodeStopped
\* and CodeNotFound end it without error, any other error ends it.
LoopNext ==
    /\ pc.loop = "Next"
    /\ remote.next \notin {"none", "outstanding"}
    /\ remote' = [remote EXCEPT !.next = "none"]
    /\ LET w == [local EXCEPT !.next = remote.next] IN
          IF remote.next = "change"
          THEN local' = w /\ pc' = [pc EXCEPT !.loop = "select"]
          ELSE LoopReturns(w, IF remote.next \in {"CodeStopped", "CodeNotFound"}
                              THEN "nil" ELSE remote.next)
    /\ UNCHANGED <<result, watcherQuiet>>

\* Mutant: the goroutine does not wait for the "Stop" request.
GoWaitDoesNotWait ==
    /\ pc.loop = "Wait"
    /\ pc' = [pc EXCEPT !.loop = "close"]
    /\ UNCHANGED <<local, remote, result, watcherQuiet>>

\* The deferred w.wg.Wait(): until the "Stop" request has been answered.
GoWait ==
    /\ pc.loop = "Wait"
    /\ local.wg = 0
    /\ pc' = [pc EXCEPT !.loop = "close"]
    /\ UNCHANGED <<local, remote, result, watcherQuiet>>

\* The deferred close(w.out).
GoClose ==
    /\ pc.loop = "close"
    /\ local' = [local EXCEPT !.out = "closed"]
    /\ pc' = [pc EXCEPT !.loop = "Done"]
    /\ UNCHANGED <<remote, result, watcherQuiet>>

\* The deferred w.tomb.Done().
GoDone ==
    /\ pc.loop = "Done"
    /\ local' = [local EXCEPT !.tomb = "dead"]
    /\ pc' = [pc EXCEPT !.loop = "exited"]
    /\ UNCHANGED <<remote, result, watcherQuiet>>

\* The other goroutine: <-w.tomb.Dying(), then callWatch("Stop").
StopperCallsStop ==
    /\ pc.stopper = "Dying"
    /\ local.tomb # "alive"
    /\ remote' = [remote EXCEPT !.stop = "outstanding"]
    /\ pc' = [pc EXCEPT !.stopper = "Stop"]
    /\ UNCHANGED <<local, result, watcherQuiet>>

\* callWatch("Stop") returns, its error is logged, and w.wg.Done() runs.
StopperDone ==
    /\ pc.stopper = "Stop"
    /\ remote.stop \in {"done", "error"}
    /\ local' = [local EXCEPT !.wg = 0]
    /\ pc' = [pc EXCEPT !.stopper = "done"]
    /\ UNCHANGED <<remote, result, watcherQuiet>>

\* The server answers "Next": the entity has changed, or the call fails,
\* or the watcher is not there any more.
ServerNext ==
    /\ remote.next = "outstanding"
    /\ \E answer \in IF remote.watcher = "live" THEN {"change", "error"}
                      ELSE {"CodeNotFound", "error"} :
          remote' = [remote EXCEPT !.next = answer]
    /\ UNCHANGED <<local, pc, result, watcherQuiet>>

\* The server answers "Stop": it removes the watcher and answers an
\* outstanding "Next" with CodeStopped, or the call fails.
ServerStop ==
    /\ remote.stop = "outstanding"
    /\ \E ok \in BOOLEAN :
          remote' = IF ok
                    THEN [remote EXCEPT !.watcher = "removed", !.stop = "done",
                                        !.next = IF @ = "outstanding"
                                                 THEN "CodeStopped" ELSE @]
                    ELSE [remote EXCEPT !.stop = "error"]
    /\ UNCHANGED <<local, pc, result, watcherQuiet>>

\* Stop is called: w.tomb.Kill(nil).
StopKill ==
    /\ pc.caller = "idle"
    /\ local' = Kill(local, "nil")
    /\ pc' = [pc EXCEPT !.caller = "Wait"]
    /\ UNCHANGED <<remote, result, watcherQuiet>>

\* w.tomb.Wait() returns the reason once the tomb is dead, and so does
\* Stop.
StopWait ==
    /\ pc.caller = "Wait"
    /\ local.tomb = "dead"
    /\ result' = Return(NoHook, local.reason)
    /\ pc' = [pc EXCEPT !.caller = "returned"]
    /\ UNCHANGED <<local, remote, watcherQuiet>>

NextWatcher ==
    \/ LoopWatch
    \/ LoopStartsStopper
    \/ LoopSelectDying
    \/ LoopSelectSend
    \/ LoopNext
    \/ GoWait
    \/ GoClose
    \/ GoDone
    \/ StopperCallsStop
    \/ StopperDone
    \/ ServerNext
    \/ ServerStop
    \/ StopKill
    \/ StopWait

SpecWatcher == InitWatcher /\ [][NextWatcher]_vars

\* Stop has returned.
StopReturned == pc.caller = "returned"

\* C39: Stop returns only after the watch loop has exited, the "Stop"
\* request sent on dying (if the watcher got as far as starting it) has
\* been answered, and w.out has been closed; after Stop has returned
\* nothing is sent on w.out; CodeStopped and CodeNotFound from "Next" are
\* never the watcher's error, and a loop ended by them alone leaves the
\* error nil.
C39_StopOrdering ==
    /\ [](StopReturned =>
            /\ pc.loop = "exited"
            /\ local.tomb = "dead"
            /\ local.out = "closed"
            /\ local.wg = 0
            /\ pc.stopper \in {"none", "done"}
            /\ pc.stopper = "done" => remote.stop \in {"done", "error"}
            /\ remote.stop # "outstanding"
            /\ result.err = local.reason)
    /\ [](/\ local.reason \notin {"CodeStopped", "CodeNotFound"}
          /\ result.err \notin {"CodeStopped", "CodeNotFound"}
          /\ (local.tomb = "dead" /\ local.next \in {"CodeStopped", "CodeNotFound"})
                => local.reason = "nil")
    /\ [][StopReturned => local' = local /\ remote' = remote]_vars
    /\ [][local'.out = "closed" => local'.sent = local.sent]_vars

\* Stop was called while "Next" was outstanding: the server stopped the
\* watcher and answered CodeStopped, the loop ended, and Stop has
\* returned nil after a notification had been delivered.
C39_Witness ==
    /\ StopReturned
    /\ local.next = "CodeStopped"
    /\ local.sent >= 1
    /\ pc.stopper = "done"
    /\ remote.stop = "done"
    /\ result.err = "nil"

====
